---- MODULE Spec2Model ----
(***************************************************************************)
(* Trusted artifact verifier of the launcher core                          *)
(* (src-tauri/crates/configarc-core/src/trusted.rs): verify, deploy and     *)
(* rollback over one install root, with the two-tier trust cache, the      *)
(* backup directory and the signed-manifest / artifact download chain.     *)
(*                                                                         *)
(* File contents are small integers (0 = the path does not exist), a       *)
(* SHA-256 digest is the tagged content (collision free), an Option is a   *)
(* sequence of length 0 or 1 and the empty string is the empty sequence.   *)
(***************************************************************************)
EXTENDS Integers, Sequences, FiniteSets, TLC

\* ---------------------------------------------------------------- bounds
\* Wall-clock time is in milliseconds since the Unix epoch.
\* Largest wall-clock value the clock is advanced to.
MaxClock == 399600
\* Milliseconds by which one Tick advances the clock.
TickMillis == 99900

\* Largest number of changes other programs make to files under the root.
MaxExt == 2

\* Width in bits of the u64 geometry fields of a container header.
WordBits == 22

\* Largest number of input files of one decrypt_game_files call.
MaxBatch == 2

\* ------------------------------------------------------- program constants
TRUST_CACHE_TTL_SECS == 300
\* Duration::from_secs(n), in the clock's unit.
from_secs(n) == n * 1000
\* Duration::as_secs(): whole seconds, the fraction dropped.
as_secs(d) == d \div 1000

\* ----------------------------------------------------------------- options
None == <<>>
Some(x) == <<x>>
IsSome(o) == o # <<>>
Get(o) == o[1]

\* The empty string of a hex field.
EmptyStr == <<>>

\* A TrustedError: the variant and what its message says.
TrustedError(kind, what) == [kind |-> kind, what |-> what]
NoErr == [kind |-> "none", what |-> "none"]

\* ------------------------------------------------------------- file system
\* Paths under the install root that the artifacts or the user may hold.
Paths == {"a.dll", "c.ini", "x.dat"}

\* The game's own files, there before the launcher ever runs.
GameFiles == {"x.dat"}

Absent == 0
\* 1: bytes the user put there, 2: bytes of the trusted build,
\* 3: a truncated write (File::create truncated the target, the copy failed).
UserBytes == 1
BuildBytes == 2
PartialBytes == 3
\* 4: a file that exists but cannot be opened or read.
UnreadableBytes == 4

NoFile == [content |-> Absent, mtime |-> 0]

exists(fs, p) == fs[p].content # Absent

\* SHA-256 of a byte string, as lower-case hex: injective on contents.
sha256_reader(c) == <<"sha256", c>>

\* ---------------------------------------------------------------- network
\* The zip bodies the CDN may serve for the artifact key: the genuine
\* archive and a tampered one.  A zip is its sequence of regular-file
\* entries (cleaned name and bytes).
Bodies == {"zip1", "zipX"}

ZipOf(body) ==
    CASE body = "zip1" -> << [name |-> "a.dll", bytes |-> BuildBytes],
                             [name |-> "c.ini", bytes |-> BuildBytes] >>
      [] OTHER         -> << [name |-> "a.dll", bytes |-> UserBytes],
                             [name |-> "c.ini", bytes |-> UserBytes] >>

TrustedFile(p, c) == [path |-> p, sha256 |-> sha256_reader(c)]

Artifact(name, sha, fileList) ==
    [kind |-> "component", name |-> name, sha256 |-> sha, files |-> fileList]

\* The manifests the CDN may serve.
Manifests ==
    << \* artifact hash given, files[] empty (hashes come from the zip)
       [build_id |-> "b1",
        artifacts |-> << Artifact("chusan.zip", sha256_reader("zip1"), <<>>) >>],
       \* artifact hash given, files[] listed
       [build_id |-> "b1",
        artifacts |-> << Artifact("CHUSAN.ZIP", sha256_reader("zip1"),
                            << TrustedFile("a.dll", BuildBytes),
                               TrustedFile("c.ini", BuildBytes) >>) >>],
       \* artifact hash left empty, files[] listed
       [build_id |-> "b1",
        artifacts |-> << Artifact("chusan.zip", EmptyStr,
                            << TrustedFile("a.dll", BuildBytes) >>) >>],
       \* no artifact for the active game
       [build_id |-> "b1",
        artifacts |-> << Artifact("mu3.zip", sha256_reader("zip1"), <<>>) >>] >>

SigKinds == {"valid", "missing", "truncated", "wrongkey"}

\* What the network answers during one call: whether the manifest request
\* succeeds, the state of its .minisig, whether the artifact request
\* succeeds and which body it returns.
NetInput(mok, sig, bok, body) ==
    [manifest_ok |-> mok, sig |-> sig, body_ok |-> bok, body |-> body]

NetInputs ==
    { NetInput(FALSE, "valid", TRUE, "zip1"),     \* manifest request fails
      NetInput(TRUE, "missing", TRUE, "zip1"),
      NetInput(TRUE, "truncated", TRUE, "zip1"),
      NetInput(TRUE, "wrongkey", TRUE, "zip1"),
      NetInput(TRUE, "valid", TRUE, "zip1"),
      NetInput(TRUE, "valid", FALSE, "zip1"),     \* artifact request fails
      NetInput(TRUE, "valid", TRUE, "zipX") }     \* artifact body tampered

\* ------------------------------------------------------------ active game
\* The active game of the launcher (Game.name); its install root is the
\* one modelled root.
ActiveGameName == " Chunithm"

\* str::to_lowercase / to_ascii_lowercase on the names that occur.
to_lowercase(s) ==
    CASE s = "CHUSAN.ZIP" -> "chusan.zip"
      [] s = " Chunithm"  -> " chunithm"
      [] s = "Chunithm"   -> "chunithm"
      [] s = "CHUNITHM"   -> "chunithm"
      [] s = "SDEZ 1.50"  -> "sdez 1.50"
      [] s = "Ongeki"     -> "ongeki"
      [] s = "Mai2.zip"   -> "mai2.zip"
      [] s = "MU3.ZIP"    -> "mu3.zip"
      [] OTHER            -> s

\* str::trim on the names that occur.
trim(s) ==
    CASE s = " Chunithm"  -> "Chunithm"
      [] s = " chunithm"  -> "chunithm"
      [] s = " SDEZ 1.50" -> "SDEZ 1.50"
      [] s = "Ongeki "    -> "Ongeki"
      [] s = "sdez "      -> "sdez"
      [] s = "  "         -> ""
      [] s = " http://keys " -> "http://keys"
      [] OTHER            -> s

\* str::starts_with("sdez") on the names that occur.
starts_with_sdez(s) == s \in {"sdez", "sdez 1.50"}

canonical_game_name(name) ==
    LET lower == to_lowercase(trim(name))
    IN IF starts_with_sdez(lower) THEN "sinmai" ELSE lower

\* Variant that prefers chuni.zip to chusan.zip.
artifact_candidates_chuni_first(name) ==
    CASE canonical_game_name(name) = "chunithm" -> <<"chuni.zip", "chusan.zip">>
      [] canonical_game_name(name) = "sinmai"   -> <<"mai2.zip">>
      [] canonical_game_name(name) = "ongeki"   -> <<"mu3.zip">>
      [] OTHER                                  -> <<>>

artifact_candidates(name) ==
    CASE canonical_game_name(name) = "chunithm" -> <<"chusan.zip", "chuni.zip">>
      [] canonical_game_name(name) = "sinmai"   -> <<"mai2.zip">>
      [] canonical_game_name(name) = "ongeki"   -> <<"mu3.zip">>
      [] OTHER                                  -> <<>>

eq_ignore_ascii_case(a, b) == to_lowercase(a) = to_lowercase(b)

\* First artifact (in manifest order) of kind component named as candidate.
FindArtifact(manifest, candidate) ==
    LET hits == {i \in 1..Len(manifest.artifacts) :
                    /\ manifest.artifacts[i].kind = "component"
                    /\ eq_ignore_ascii_case(manifest.artifacts[i].name, candidate)}
    IN IF hits = {} THEN None
       ELSE Some(manifest.artifacts[CHOOSE i \in hits : \A j \in hits : i <= j])

\* Ok(artifact) as Some, Err(NotFound) as None.
select_artifact(manifest, name) ==
    LET cands == artifact_candidates(name)
        found == {k \in 1..Len(cands) : IsSome(FindArtifact(manifest, cands[k]))}
    IN IF found = {} THEN None
       ELSE FindArtifact(manifest, cands[CHOOSE k \in found : \A j \in found : k <= j])

\* --------------------------------------------------------- manifest fetch
\* Variant that accepts any signature that decodes, whichever key made it.
verify_manifest_signature_decodable(sig) == sig \in {"valid", "wrongkey"}

\* pk.verify(manifest_bytes, sig): only a signature made with the embedded
\* key over these bytes decodes and verifies.
verify_manifest_signature(sig) == sig = "valid"

\* The requests and steps of fetch_manifest, in order; each `?` returns.
\* ok: Ok(manifest); the other fields log what was done.
fetch_manifest(net, served) ==
    IF ~net.manifest_ok
    THEN [ok |-> FALSE, err |-> TrustedError("Network", "Failed to download"), manifest_req |-> TRUE,
          sig_req |-> FALSE, sig_seen |-> "unfetched", parsed |-> FALSE,
          manifest |-> None]
    ELSE IF net.sig = "missing"
    THEN [ok |-> FALSE, err |-> TrustedError("Network", "Failed to download"), manifest_req |-> TRUE,
          sig_req |-> TRUE, sig_seen |-> net.sig, parsed |-> FALSE,
          manifest |-> None]
    ELSE IF ~verify_manifest_signature(net.sig)
    THEN [ok |-> FALSE, err |-> TrustedError("Verification", "signature"), manifest_req |-> TRUE,
          sig_req |-> TRUE, sig_seen |-> net.sig, parsed |-> FALSE,
          manifest |-> None]
    ELSE [ok |-> TRUE, err |-> NoErr, manifest_req |-> TRUE,
          sig_req |-> TRUE, sig_seen |-> net.sig, parsed |-> TRUE,
          manifest |-> Some(Manifests[served])]

\* ------------------------------------------------------ artifact download
\* Variant that never compares the digest of the body with the manifest.
download_artifact_unchecked(artifact, net) ==
    IF ~net.body_ok
    THEN [ok |-> FALSE, err |-> TrustedError("Network", "Failed to download artifact"), body |-> None, seen |-> None]
    ELSE [ok |-> TRUE, err |-> NoErr, body |-> Some(net.body), seen |-> Some(net.body)]

\* Ok(DownloadedArtifact) carries the body; the temp file is dropped on Err.
\* seen (history): the body the server sent, whatever became of it.
download_artifact(artifact, net) ==
    IF ~net.body_ok
    THEN [ok |-> FALSE, err |-> TrustedError("Network", "Failed to download artifact"), body |-> None, seen |-> None]
    ELSE IF artifact.sha256 # EmptyStr /\ sha256_reader(net.body) # artifact.sha256
    THEN [ok |-> FALSE, err |-> TrustedError("Verification", "Artifact sha mismatch"),
          body |-> None,
          seen |-> Some(net.body)]
    ELSE [ok |-> TRUE, err |-> NoErr, body |-> Some(net.body), seen |-> Some(net.body)]

\* Path ends in .dll or .exe (lower-cased), on the paths that occur.
is_binary_path(p) == p \in {"a.dll"}

\* Variant that lists every entry of the zip.
expected_files_from_zip_all(body) ==
    LET z == ZipOf(body)
    IN [i \in 1..Len(z) |-> TrustedFile(z[i].name, z[i].bytes)]

expected_files_from_zip(body) ==
    LET z == ZipOf(body)
        bin(e) == is_binary_path(e.name)
        picked == SelectSeq(z, bin)
    IN [i \in 1..Len(picked) |-> TrustedFile(picked[i].name, picked[i].bytes)]

\* Ok(list) as Some, Err(Verification) as None.
expected_files(artifact, downloaded) ==
    IF artifact.files # <<>> THEN Some(artifact.files)
    ELSE IF IsSome(downloaded) THEN Some(expected_files_from_zip(Get(downloaded)))
    ELSE None

\* ------------------------------------------------------------ check_files
FileCheckResult(fs, file) ==
    IF exists(fs, file.path)
    THEN LET sha == IF fs[file.path].content = UnreadableBytes THEN None
                    ELSE Some(sha256_reader(fs[file.path].content))
         IN [path |-> file.path, expected_sha256 |-> file.sha256,
             actual_sha256 |-> sha,
             exists |-> TRUE,
             matches |-> IsSome(sha) /\ Get(sha) = file.sha256]
    ELSE [path |-> file.path, expected_sha256 |-> file.sha256,
          actual_sha256 |-> None, exists |-> FALSE, matches |-> FALSE]

\* Variant that takes an empty list of results as all matching.
check_files_vacuous(fs, files, artifact, manifest, bmeta, now) ==
    LET results == [i \in 1..Len(files) |-> FileCheckResult(fs, files[i])]
        missing_files == \E i \in 1..Len(results) : ~results[i].exists
        all_match == \A i \in 1..Len(results) : results[i].matches
        reason == IF results = <<>> THEN Some("No trusted DLL hashes available to verify this artifact")
                  ELSE IF all_match THEN None
                  ELSE IF missing_files THEN Some("Missing segatools binaries; please deploy.")
                  ELSE Some("Detected untrusted segatools binaries")
    IN [trusted |-> all_match, reason |-> reason,
        build_id |-> Some(manifest.build_id),
        artifact_name |-> Some(artifact.name),
        artifact_sha256 |-> Some(artifact.sha256),
        checked_files |-> results,
        has_backup |-> IsSome(bmeta),
        missing_files |-> missing_files,
        checked_at |-> now]

\* checked_at is a history field (the time of this file check); the
\* program's status has no such field and nothing in the model reads it
\* except the properties.
check_files(fs, files, artifact, manifest, bmeta, now) ==
    LET results == [i \in 1..Len(files) |-> FileCheckResult(fs, files[i])]
        missing_files == \E i \in 1..Len(results) : ~results[i].exists
        all_match == results # <<>> /\ \A i \in 1..Len(results) : results[i].matches
        reason == IF results = <<>> THEN Some("No trusted DLL hashes available to verify this artifact")
                  ELSE IF all_match THEN None
                  ELSE IF missing_files THEN Some("Missing segatools binaries; please deploy.")
                  ELSE Some("Detected untrusted segatools binaries")
    IN [trusted |-> all_match, reason |-> reason,
        build_id |-> Some(manifest.build_id),
        artifact_name |-> Some(artifact.name),
        artifact_sha256 |-> Some(artifact.sha256),
        checked_files |-> results,
        has_backup |-> IsSome(bmeta),
        missing_files |-> missing_files,
        checked_at |-> now]

\* ------------------------------------------------------------ trust cache
file_mtime_nanos(fs, p) == IF exists(fs, p) THEN Some(fs[p].mtime) ELSE None

capture_mtimes(fs, checked) ==
    LET present == {checked[i].path : i \in {j \in 1..Len(checked) : exists(fs, checked[j].path)}}
    IN [p \in present |-> Get(file_mtime_nanos(fs, p))]

\* Variant that only asks that the recorded files still exist.
files_unchanged_exists_only(fs, mtimes) ==
    \A rel \in DOMAIN mtimes : IsSome(file_mtime_nanos(fs, rel))

files_unchanged(fs, mtimes) ==
    \A rel \in DOMAIN mtimes :
        /\ IsSome(file_mtime_nanos(fs, rel))
        /\ Get(file_mtime_nanos(fs, rel)) = mtimes[rel]

\* mem: the process-wide map's entry for the root (Option<CachedTrustEntry>).
cached_status_for_memory(fs, mem, now) ==
    IF ~IsSome(mem) THEN None
    ELSE IF now - Get(mem).cached_at > from_secs(TRUST_CACHE_TTL_SECS) THEN None
    ELSE IF ~files_unchanged(fs, Get(mem).mtimes) THEN None
    ELSE Some(Get(mem).status)

\* disk: the content of <root>/.trust_cache.json (Option<PersistentTrustEntry>).
read_persistent_cache(fs, disk, now) ==
    IF ~IsSome(disk) THEN None
    ELSE IF now - from_secs(Get(disk).cached_at) > from_secs(TRUST_CACHE_TTL_SECS) THEN None
    ELSE IF ~files_unchanged(fs, Get(disk).mtimes) THEN None
    ELSE disk

write_persistent_cache(entry) ==
    Some([status |-> entry.status, mtimes |-> entry.mtimes,
          cached_at |-> as_secs(entry.cached_at)])

\* The status served from the cache (if any) and the memory tier after.
cached_status_for(fs, mem, disk, now) ==
    IF IsSome(cached_status_for_memory(fs, mem, now))
    THEN [status |-> cached_status_for_memory(fs, mem, now), mem |-> mem]
    ELSE IF ~IsSome(read_persistent_cache(fs, disk, now))
    THEN [status |-> None, mem |-> mem]
    ELSE LET entry == Get(read_persistent_cache(fs, disk, now))
         IN [status |-> Some(entry.status),
             mem |-> Some([status |-> entry.status, mtimes |-> entry.mtimes,
                           cached_at |-> now])]

\* Variant that leaves .trust_cache.json in place.
clear_cached_status_memory_only(m, d) == [mem |-> None, disk |-> d]

\* Both tiers after clear_cached_status (m, d: the tiers before).
clear_cached_status(m, d) == [mem |-> None, disk |-> None]

\* Variant that stores whatever status it is given.
store_status_for_any(fs, m, d, now, status) ==
    LET entry == [status |-> status,
                  mtimes |-> capture_mtimes(fs, status.checked_files),
                  cached_at |-> now]
    IN [mem |-> Some(entry), disk |-> write_persistent_cache(entry)]

\* Both tiers after store_status_for (m, d: the tiers before).
store_status_for(fs, m, d, now, status) ==
    IF ~status.trusted \/ status.missing_files
    THEN clear_cached_status(m, d)
    ELSE LET entry == [status |-> status,
                       mtimes |-> capture_mtimes(fs, status.checked_files),
                       cached_at |-> now]
         IN [mem |-> Some(entry), disk |-> write_persistent_cache(entry)]

\* ----------------------------------------------------------------- verify
\* What a call did on the network: the requests it made, whether it parsed
\* the manifest, and (history) the .minisig and the artifact body it got.
NetLog(fm, ar, dl) ==
    [manifest_req |-> fm.manifest_req, sig_req |-> fm.sig_req,
     parsed |-> fm.parsed, sig_seen |-> fm.sig_seen,
     artifact_req |-> ar, body_seen |-> IF ar THEN dl.seen ELSE None]

NoNet ==
    [manifest_req |-> FALSE, sig_req |-> FALSE, parsed |-> FALSE,
     sig_seen |-> "unfetched", artifact_req |-> FALSE, body_seen |-> None]

VerifyErr(err, log, mem, disk, had) ==
    [res |-> [op |-> "verify", ok |-> FALSE, err |-> err, from_cache |-> FALSE,
              status |-> None, net |-> log, had_entry |-> had],
     mem |-> mem, disk |-> disk]

\* verify_segatoools_for_active on the active root: the Result it returns
\* (res) and both cache tiers afterwards.  had_entry (history): a tier held
\* an entry for the root when the call started.
verify_segatoools_for_active(fs, mem, disk, bmeta, now, net, served) ==
    LET cached == cached_status_for(fs, mem, disk, now)
        had == IsSome(mem) \/ IsSome(disk)
        fm == fetch_manifest(net, served)
        log0 == NetLog(fm, FALSE, [seen |-> None])
    IN
    IF IsSome(cached.status)
    THEN [res |-> [op |-> "verify", ok |-> TRUE, err |-> NoErr, from_cache |-> TRUE,
                   status |-> cached.status, net |-> NoNet, had_entry |-> had],
          mem |-> cached.mem, disk |-> disk]
    ELSE IF ~fm.ok THEN VerifyErr(fm.err, log0, cached.mem, disk, had)
    ELSE IF ~IsSome(select_artifact(Get(fm.manifest), ActiveGameName))
    THEN VerifyErr(TrustedError("NotFound", "No trusted artifact found for game"), log0, cached.mem, disk, had)
    ELSE
    LET manifest == Get(fm.manifest)
        artifact == Get(select_artifact(manifest, ActiveGameName))
        needDl == artifact.files = <<>>
        dl == download_artifact(artifact, net)
        log1 == NetLog(fm, needDl, dl)
    IN
    IF needDl /\ ~dl.ok THEN VerifyErr(dl.err, log1, cached.mem, disk, had)
    ELSE
    LET expected == expected_files(artifact, IF needDl THEN dl.body ELSE None)
        status == check_files(fs, Get(expected), artifact, manifest, bmeta, now)
        stored == store_status_for(fs, mem, disk, now, status)
    IN [res |-> [op |-> "verify", ok |-> TRUE, err |-> NoErr, from_cache |-> FALSE,
                 status |-> Some(status), net |-> log1, had_entry |-> had],
        mem |-> stored.mem, disk |-> stored.disk]

\* ------------------------------------------------------------------ state
\* ------------------------------------------------------------- fsdecrypt
\* src/src-tauri/src/fsdecrypt: containers on disk, the BootID header, key
\* material, and decrypt_container as a function of the disk.

PAGE_SIZE == 4096

\* size_of::<BootId>(): the bytes read_bootid_from_reader reads.
BootIdSize == 96

\* The u64 of the header's geometry fields is WordBits wide in the model.
U64 == 2 ^ WordBits
U64_MAX == U64 - 1
\* The largest offset or length the file system accepts (off_t).
I64_MAX == (U64 \div 2) - 1

saturating_sub(a, b) == IF a >= b THEN a - b ELSE 0
saturating_mul(a, b) == IF a * b > U64_MAX THEN U64_MAX ELSE a * b
saturating_add(a, b) == IF a + b > U64_MAX THEN U64_MAX ELSE a + b
saturating_div(a, b) == a \div b
wrapping_mul(a, b) == (a * b) % U64

ContainerType_OS == 0
ContainerType_APP == 1
ContainerType_OPTION == 2

\* An id field of the header that is not UTF-8.
InvalidId == "\\xFF"

\* normalize_id: the id as text without NULs and surrounding blanks, or
\* None when the bytes are not UTF-8.
normalize_id(bytes) ==
    IF bytes = InvalidId THEN None
    ELSE IF bytes = "sdx " THEN Some("sdx")
    ELSE Some(bytes)

\* str::to_uppercase on the ids of the model.
to_uppercase(id) ==
    IF id = "sdx" THEN "SDX" ELSE IF id = "sdez" THEN "SDEZ" ELSE id

GameKeys(key, iv) == [key |-> key, iv |-> iv]

\* The key material load_keys returns: games holds the ids of the key file,
\* trimmed and uppercased by parse_key_file.
FsDecryptKeys ==
    [option_key |-> "key:option", option_iv |-> "iv:option",
     games |-> [id \in {"SDEZ", "SDX", "ACA"} |->
                   IF id = "SDX" THEN GameKeys("key:SDX", None)
                   ELSE IF id = "SDEZ" THEN GameKeys("key:SDEZ", Some("iv:SDEZ"))
                   ELSE GameKeys("key:ACA", Some("iv:ACA"))]]

game_keys_for(keys, game_id) ==
    LET key == to_uppercase(game_id)
    IN IF key \in DOMAIN keys.games THEN Some(keys.games[key]) ELSE None

\* A block geometry of the header.
Geometry(bc, bs, hbc) ==
    [block_count |-> bc, block_size |-> bs, header_block_count |-> hbc]

\* The BootID fields decrypt_container reads.  The version, timestamp and
\* sequence fields only feed the output file name and are the same in every
\* container of the model.  use_custom_iv is the value the build reads from
\* the flag byte.
BootId(ct, custom, os_id, game_id, geo) ==
    [container_type |-> ct, use_custom_iv |-> custom, os_id |-> os_id,
     game_id |-> game_id, block_count |-> geo.block_count,
     block_size |-> geo.block_size,
     header_block_count |-> geo.header_block_count]

output_size_from_bootid(bootid) ==
    saturating_mul(saturating_sub(bootid.block_count, bootid.header_block_count),
                   bootid.block_size)

\* A path: file stem and extension, all in one directory.
DPath(stem, e) == [stem |-> stem, ext |-> e]
with_extension(path, e) == [path EXCEPT !.ext = e]

InputPaths == {DPath("in1", "app"), DPath("in2", "app")}
DPaths ==
    InputPaths \cup
    {DPath(st, e) : st \in {"SDEZ", "sdx", "SDGA", "ACA"},
                    e \in {"ntfs", "exfat", "vhd", ""}}

\* What a path holds: nothing, an encrypted container (header and length in
\* bytes), a decrypted image (length and bytes written so far), an
\* extracted VHD (VhdFile below), or a directory.
AbsentFile == [k |-> "absent"]
Container(hdr, len) == [k |-> "enc", hdr |-> hdr, len |-> len]
Plain(len, written) == [k |-> "plain", len |-> len, written |-> written]
DirFile == [k |-> "dir"]

\* DecryptResult as decrypt_game_files creates it for an input.
NewEntry(path) ==
    [input |-> path, output |-> None, container_type |-> None,
     extracted |-> FALSE, warnings |-> <<>>, failed |-> FALSE, error |-> None]

\* History of one decrypt_container call: which steps it reached.
NoTrace ==
    [key_lookup |-> FALSE, created |-> FALSE, preallocated |-> FALSE,
     data_offset |-> None, first_page_at |-> None, out_len |-> None,
     extractor |-> "not run", key |-> None,
     iv |-> [from |-> "none", value |-> None, header |-> None, page_at |-> None],
     pages |-> <<>>, flushed |-> FALSE]

\* The outcome of one decrypt_container call: Ok, Err(msg) or a panic, the
\* DecryptResult it filled in, and the disk afterwards.
Outcome(kind, msg, entry, fs, trace) ==
    [kind |-> kind, msg |-> msg, entry |-> entry, fs |-> fs, trace |-> trace]

\* What the environment does to one call: io names the operation that
\* fails, ex is what the extractor makes of the image (when no operation
\* before it fails), checked says whether the build checks arithmetic
\* overflow (debug) or wraps (release).
IoFaults == {"none", "create", "set_len", "write"}
ExtractOutcomes == {"ok", "fail", "fail_partial"}
Chances ==
    {ch \in [io : IoFaults, ex : ExtractOutcomes, checked : BOOLEAN] :
         ch.io = "none" \/ ch.ex = "ok"}

\* The bytes a read of up to PAGE_SIZE at offset pos returns.
page_at(len, pos) ==
    IF len <= pos THEN 0
    ELSE IF len - pos >= PAGE_SIZE THEN PAGE_SIZE ELSE len - pos

output_stem(bootid, os_id, game_id) ==
    IF bootid.container_type = ContainerType_OS THEN os_id ELSE game_id

output_ext(bootid) ==
    IF bootid.container_type \in {ContainerType_OS, ContainerType_APP}
    THEN "ntfs" ELSE "exfat"

VhdFile(complete) == [k |-> "vhd", complete |-> complete]

\* std::fs::remove_file; decrypt_container drops its Result.
dec_remove_file(fs, path) ==
    IF fs[path].k \in {"absent", "dir"} THEN fs
    ELSE [fs EXCEPT ![path] = AbsentFile]

\* extract_internal_vhd on the decrypted image: the path of the VHD and the
\* disk afterwards, or an error.
extract_internal_vhd(fs, image_path, ch) ==
    LET output_path == with_extension(image_path, "vhd")
        found == ch.ex # "fail" /\ fs[image_path].written > 0
        creatable == fs[output_path].k # "dir"
    IN IF ~found \/ ~creatable
       THEN [ok |-> FALSE, path |-> None, fs |-> fs]
       ELSE IF ch.ex = "fail_partial"
       THEN [ok |-> FALSE, path |-> None,
             fs |-> [fs EXCEPT ![output_path] = VhdFile(FALSE)]]
       ELSE [ok |-> TRUE, path |-> Some(output_path),
             fs |-> [fs EXCEPT ![output_path] = VhdFile(TRUE)]]

\* extract_exfat_contents on the decrypted image: the directory and the
\* disk afterwards, or an error.
extract_exfat_contents(fs, exfat_path, ch) ==
    LET output_dir == with_extension(exfat_path, "")
        opened == ch.ex # "fail" /\ fs[exfat_path].written > 0
        creatable == fs[output_dir].k \in {"absent", "dir"}
    IN IF ~opened \/ ~creatable
       THEN [ok |-> FALSE, path |-> None, fs |-> fs]
       ELSE IF ch.ex = "fail_partial"
       THEN [ok |-> FALSE, path |-> None,
             fs |-> [fs EXCEPT ![output_dir] = DirFile]]
       ELSE [ok |-> TRUE, path |-> Some(output_dir),
             fs |-> [fs EXCEPT ![output_dir] = DirFile]]

\* Variant that leaves the intermediate image in place after extraction.
finish_container_keep_image(fs, bootid, output_path, no_extract, entry, trace, ch) ==
    IF no_extract \/ bootid.container_type \notin
           {ContainerType_OS, ContainerType_APP, ContainerType_OPTION}
    THEN Outcome("ok", "", [entry EXCEPT !.output = Some(output_path)], fs, trace)
    ELSE
    LET is_option == bootid.container_type = ContainerType_OPTION
        ex == IF is_option THEN extract_exfat_contents(fs, output_path, ch)
              ELSE extract_internal_vhd(fs, output_path, ch)
        warning == IF is_option THEN "Failed to extract exfat contents"
                   ELSE "Failed to extract internal VHD"
    IN IF ex.ok
       THEN Outcome("ok", "",
                    [entry EXCEPT !.output = ex.path, !.extracted = TRUE],
                    ex.fs,
                    [trace EXCEPT !.extractor = "ok"])
       ELSE Outcome("ok", "",
                    [entry EXCEPT !.output = Some(output_path),
                                  !.warnings = Append(@, warning)],
                    ex.fs, [trace EXCEPT !.extractor = "err"])

\* decrypt_container from the no_extract test on: the intermediate image is
\* complete at output_path.
finish_container(fs, bootid, output_path, no_extract, entry, trace, ch) ==
    IF no_extract \/ bootid.container_type \notin
           {ContainerType_OS, ContainerType_APP, ContainerType_OPTION}
    THEN Outcome("ok", "", [entry EXCEPT !.output = Some(output_path)], fs, trace)
    ELSE
    LET is_option == bootid.container_type = ContainerType_OPTION
        ex == IF is_option THEN extract_exfat_contents(fs, output_path, ch)
              ELSE extract_internal_vhd(fs, output_path, ch)
        warning == IF is_option THEN "Failed to extract exfat contents"
                   ELSE "Failed to extract internal VHD"
    IN IF ex.ok
       THEN Outcome("ok", "",
                    [entry EXCEPT !.output = ex.path, !.extracted = TRUE],
                    dec_remove_file(ex.fs, output_path),
                    [trace EXCEPT !.extractor = "ok"])
       ELSE Outcome("ok", "",
                    [entry EXCEPT !.output = Some(output_path),
                                  !.warnings = Append(@, warning)],
                    ex.fs, [trace EXCEPT !.extractor = "err"])

\* Variant that looks every container's key up by game_id.
select_keys_by_game_id(bootid, keys, os_id, game_id) ==
    IF bootid.container_type = ContainerType_OPTION
    THEN Some(GameKeys(keys.option_key, Some(keys.option_iv)))
    ELSE game_keys_for(keys, game_id)

\* The key material decrypt_container picks for the container's kind.
select_keys(bootid, keys, os_id, game_id) ==
    IF bootid.container_type = ContainerType_OS
    THEN game_keys_for(keys, os_id)
    ELSE IF bootid.container_type = ContainerType_APP
    THEN game_keys_for(keys, game_id)
    ELSE Some(GameKeys(keys.option_key, Some(keys.option_iv)))

\* Variant that ignores the header's use_custom_iv flag.
select_iv_ignore_flag(bootid, gk) == gk.iv

\* The configured file IV, or None when it has to be recovered.
select_iv(bootid, gk) == IF bootid.use_custom_iv THEN None ELSE gk.iv

\* The plaintext header calculate_file_iv is given for the kind.
expected_header_for(bootid) ==
    IF bootid.container_type = ContainerType_OPTION
    THEN "EXFAT_HEADER" ELSE "NTFS_HEADER"

\* Variant in which the reader stays where the last read left it.
seek_start_stay(pos, target) == pos

\* reader.seek(SeekFrom::Start(target)) from position pos.
seek_start(pos, target) == target

\* The loop over the pages with the reader at pos and left iterations to
\* go: each reads up to PAGE_SIZE bytes, derives the page IV from the
\* reader's position relative to data_offset, decrypts and writes.  pages
\* lists the iterations that completed, written counts the bytes written.
RECURSIVE page_loop(_, _, _, _, _, _)
page_loop(len, data_offset, pos, left, written, pages) ==
    IF left = 0 THEN [ok |-> TRUE, pages |-> pages, written |-> written]
    ELSE LET file_offset == (pos + U64 - data_offset) % U64
             n == page_at(len, pos)
             page == [file_offset |-> file_offset, read_at |-> pos,
                      bytes |-> n, write_at |-> written]
         IN IF n % 16 # 0
            THEN [ok |-> FALSE, pages |-> pages, written |-> written]
            ELSE page_loop(len, data_offset, pos + n, left - 1, written + n,
                           Append(pages, page))

\* Variant that refuses to create an output file that already exists.
write_container_create_new(fs, len, pos, bootid, data_offset, output_path, no_extract, entry, trace, ch) ==
    LET output_size == output_size_from_bootid(bootid)
        pages == output_size \div PAGE_SIZE
        start == seek_start(pos, data_offset)
        loop == page_loop(len, data_offset, start, pages, 0, <<>>)
        fs1 == [fs EXCEPT ![output_path] = Plain(0, 0)]
        fs2 == [fs EXCEPT ![output_path] = Plain(output_size, 0)]
        fs3 == [fs EXCEPT ![output_path] = Plain(output_size, loop.written)]
        t1 == [trace EXCEPT !.created = TRUE]
        t2 == [t1 EXCEPT !.preallocated = TRUE, !.out_len = Some(output_size)]
        t3 == [t2 EXCEPT !.first_page_at = IF pages > 0 THEN Some(start) ELSE None,
                         !.pages = loop.pages]
    IN IF ch.io = "create" \/ fs[output_path].k # "absent"
       THEN Outcome("err", "I/O error: File::create", entry, fs, trace)
       ELSE IF ch.io = "set_len" \/ output_size > I64_MAX
       THEN Outcome("err", "I/O error: set_len", entry, fs1, t1)
       ELSE IF data_offset > I64_MAX
       THEN Outcome("err", "I/O error: seek", entry, fs2, t2)
       ELSE IF ~loop.ok
       THEN Outcome("err", "crypto error: UnpadError", entry, fs3, t3)
       ELSE IF ch.io = "write" /\ loop.written > 0
       THEN Outcome("err", "I/O error: write", entry, fs2, t3)
       ELSE finish_container(fs3, bootid, output_path, no_extract, entry,
                             [t3 EXCEPT !.flushed = TRUE], ch)

\* decrypt_container from File::create on: create and size the output,
\* decrypt the pages, then finish.  pos is where the reader stands.
write_container(fs, len, pos, bootid, data_offset, output_path, no_extract, entry, trace, ch) ==
    LET output_size == output_size_from_bootid(bootid)
        pages == output_size \div PAGE_SIZE
        start == seek_start(pos, data_offset)
        loop == page_loop(len, data_offset, start, pages, 0, <<>>)
        fs1 == [fs EXCEPT ![output_path] = Plain(0, 0)]
        fs2 == [fs EXCEPT ![output_path] = Plain(output_size, 0)]
        fs3 == [fs EXCEPT ![output_path] = Plain(output_size, loop.written)]
        t1 == [trace EXCEPT !.created = TRUE]
        t2 == [t1 EXCEPT !.preallocated = TRUE, !.out_len = Some(output_size)]
        t3 == [t2 EXCEPT !.first_page_at = IF pages > 0 THEN Some(start) ELSE None,
                         !.pages = loop.pages]
    IN IF ch.io = "create" \/ fs[output_path].k = "dir"
       THEN Outcome("err", "I/O error: File::create", entry, fs, trace)
       ELSE IF ch.io = "set_len" \/ output_size > I64_MAX
       THEN Outcome("err", "I/O error: set_len", entry, fs1, t1)
       ELSE IF data_offset > I64_MAX
       THEN Outcome("err", "I/O error: seek", entry, fs2, t2)
       ELSE IF ~loop.ok
       THEN Outcome("err", "crypto error: UnpadError", entry, fs3, t3)
       ELSE IF ch.io = "write" /\ loop.written > 0
       THEN Outcome("err", "I/O error: write", entry, fs2, t3)
       ELSE finish_container(fs3, bootid, output_path, no_extract, entry,
                             [t3 EXCEPT !.flushed = TRUE], ch)

\* Variant without the test of the container type: an unknown type falls
\* into the default arms.
decrypt_container_any_type(fs, path, no_extract, keys, entry, ch) ==
    LET file == fs[path]
    IN
    IF file.k # "enc"
    THEN Outcome("err", "I/O error: File::open", entry, fs, NoTrace)
    ELSE IF file.len < BootIdSize
    THEN Outcome("err", "I/O error: read_exact", entry, fs, NoTrace)
    ELSE
    LET bootid == file.hdr
    IN
    IF ~IsSome(normalize_id(bootid.os_id)) \/ ~IsSome(normalize_id(bootid.game_id))
    THEN Outcome("err", "invalid id", entry, fs, NoTrace)
    ELSE
    LET os_id == Get(normalize_id(bootid.os_id))
        game_id == Get(normalize_id(bootid.game_id))
        found == select_keys(bootid, keys, os_id, game_id)
        t0 == [NoTrace EXCEPT !.key_lookup = TRUE]
    IN
    IF ~IsSome(found)
    THEN Outcome("err", "Key not found", entry, fs, t0)
    ELSE
    LET gk == Get(found)
        e1 == [entry EXCEPT !.container_type =
                   Some(IF bootid.container_type = ContainerType_OS THEN "OS"
                        ELSE IF bootid.container_type = ContainerType_APP THEN "APP"
                        ELSE IF bootid.container_type = ContainerType_OPTION THEN "OPTION"
                        ELSE "UNKNOWN")]
        overflow == bootid.header_block_count * bootid.block_size > U64_MAX
        data_offset == wrapping_mul(bootid.header_block_count, bootid.block_size)
        iv == select_iv(bootid, gk)
        t1 == [t0 EXCEPT !.data_offset = Some(data_offset), !.key = Some(gk.key)]
        t2 == IF IsSome(iv)
              THEN [t1 EXCEPT !.iv = [from |-> "configured", value |-> iv,
                                      header |-> None, page_at |-> None]]
              ELSE [t1 EXCEPT !.iv = [from |-> "calculate_file_iv", value |-> None,
                                      header |-> Some(expected_header_for(bootid)),
                                      page_at |-> Some(data_offset)]]
        pos == IF IsSome(iv) THEN BootIdSize
               ELSE data_offset + page_at(file.len, data_offset)
        output_path == DPath(output_stem(bootid, os_id, game_id), output_ext(bootid))
    IN
    IF overflow /\ ch.checked
    THEN Outcome("panic", "attempt to multiply with overflow", e1, fs, t0)
    ELSE IF ~IsSome(iv) /\ data_offset > I64_MAX
    THEN Outcome("err", "I/O error: seek", e1, fs, t1)
    ELSE IF ~IsSome(iv) /\ page_at(file.len, data_offset) < 16
    THEN Outcome("panic", "range end index 16 out of range for slice", e1, fs, t2)
    ELSE write_container(fs, file.len, pos, bootid, data_offset, output_path,
                         no_extract, e1, t2, ch)

\* decrypt_container(path, no_extract, keys, result, progress) on the disk
\* fs, with what the environment does in ch.
decrypt_container(fs, path, no_extract, keys, entry, ch) ==
    LET file == fs[path]
    IN
    IF file.k # "enc"
    THEN Outcome("err", "I/O error: File::open", entry, fs, NoTrace)
    ELSE IF file.len < BootIdSize
    THEN Outcome("err", "I/O error: read_exact", entry, fs, NoTrace)
    ELSE
    LET bootid == file.hdr
    IN
    IF bootid.container_type \notin
           {ContainerType_OS, ContainerType_APP, ContainerType_OPTION}
    THEN Outcome("err", "Unknown container type", entry, fs, NoTrace)
    ELSE IF ~IsSome(normalize_id(bootid.os_id)) \/ ~IsSome(normalize_id(bootid.game_id))
    THEN Outcome("err", "invalid id", entry, fs, NoTrace)
    ELSE
    LET os_id == Get(normalize_id(bootid.os_id))
        game_id == Get(normalize_id(bootid.game_id))
        found == select_keys(bootid, keys, os_id, game_id)
        t0 == [NoTrace EXCEPT !.key_lookup = TRUE]
    IN
    IF ~IsSome(found)
    THEN Outcome("err", "Key not found", entry, fs, t0)
    ELSE
    LET gk == Get(found)
        e1 == [entry EXCEPT !.container_type =
                   Some(IF bootid.container_type = ContainerType_OS THEN "OS"
                        ELSE IF bootid.container_type = ContainerType_APP THEN "APP"
                        ELSE IF bootid.container_type = ContainerType_OPTION THEN "OPTION"
                        ELSE "UNKNOWN")]
        overflow == bootid.header_block_count * bootid.block_size > U64_MAX
        data_offset == wrapping_mul(bootid.header_block_count, bootid.block_size)
        iv == select_iv(bootid, gk)
        t1 == [t0 EXCEPT !.data_offset = Some(data_offset), !.key = Some(gk.key)]
        t2 == IF IsSome(iv)
              THEN [t1 EXCEPT !.iv = [from |-> "configured", value |-> iv,
                                      header |-> None, page_at |-> None]]
              ELSE [t1 EXCEPT !.iv = [from |-> "calculate_file_iv", value |-> None,
                                      header |-> Some(expected_header_for(bootid)),
                                      page_at |-> Some(data_offset)]]
        pos == IF IsSome(iv) THEN BootIdSize
               ELSE data_offset + page_at(file.len, data_offset)
        output_path == DPath(output_stem(bootid, os_id, game_id), output_ext(bootid))
    IN
    IF overflow /\ ch.checked
    THEN Outcome("panic", "attempt to multiply with overflow", e1, fs, t0)
    ELSE IF ~IsSome(iv) /\ data_offset > I64_MAX
    THEN Outcome("err", "I/O error: seek", e1, fs, t1)
    ELSE IF ~IsSome(iv) /\ page_at(file.len, data_offset) < 16
    THEN Outcome("panic", "range end index 16 out of range for slice", e1, fs, t2)
    ELSE write_container(fs, file.len, pos, bootid, data_offset, output_path,
                         no_extract, e1, t2, ch)

VARIABLES
    files,    \* install root: path -> [content, mtime]
    mem,      \* memory tier of the trust cache for the root
    disk,     \* <root>/.trust_cache.json
    bmeta,    \* Segatools_Backup/metadata.json (Option<BackupMetadata>)
    bfiles,   \* Segatools_Backup/files/<path>: path -> content
    now,      \* wall clock (ms)
    pc,       \* position of the running deploy / rollback, or "idle"
    job,      \* locals of the running deploy / rollback
    result,   \* what the last finished call returned
    ext,      \* number of changes made by other programs so far
    cdn,      \* which manifest <prefix>/latest/manifest.json is
    snap,     \* history: file contents when the last deploy started
    lastv,    \* history: the last trusted status verify computed, while no
              \* checked file has changed and no deploy or rollback has run
    arg,      \* the input of the function under study
    ret,      \* what it returned
    dfs,      \* the directory of the containers: path -> what it holds
    run,      \* the decrypt_game_files call: its inputs, position, results
    shadow    \* history: the same call without the inputs that failed

\* The state of the verifier.
trustVars == <<files, mem, disk, bmeta, bfiles, now, pc, job, result, ext, cdn,
               snap, lastv>>

\* The state outside the verifier.
\* The state of the decryptor.
decVars == <<dfs, run, shadow>>

sideVars == <<arg, ret, decVars>>

vars == <<trustVars, sideVars>>

NoArg == [fn |-> "none"]
NoRet == [fn |-> "none"]

\* No decrypt call has been made and the directory is empty.
NoDisk == [p \in DPaths |-> AbsentFile]
NoRun == [pc |-> "idle"]
NoShadow == [fs |-> NoDisk, results |-> <<>>]

NoJob == [op |-> "none"]
NoResult == [op |-> "none"]
NoSnap == [phase |-> "none"]

ContentsOf(fs) == [p \in Paths |-> fs[p].content]

Init ==
    /\ files = [p \in Paths |-> IF p \in GameFiles
                                 THEN [content |-> UserBytes, mtime |-> 1]
                                 ELSE NoFile]
    /\ mem = None
    /\ disk = None
    /\ bmeta = None
    /\ bfiles = [p \in Paths |-> Absent]
    /\ now = 0
    /\ pc = "idle"
    /\ job = NoJob
    /\ result = NoResult
    /\ ext = 0
    /\ cdn \in 1..Len(Manifests)
    /\ snap = NoSnap
    /\ lastv = None
    /\ arg = NoArg
    /\ ret = NoRet
    /\ dfs = NoDisk
    /\ run = NoRun
    /\ shadow = NoShadow

\* The mtime of a write to p made at this moment.  Nanosecond mtimes of
\* different writes differ, and the program only ever compares the mtime of
\* a path for equality with the one a cache entry recorded for that path;
\* so the least value that no cache entry holds for p stands for "a time
\* stamp this path did not have when it was recorded".
RecordedMtimes(c, p) ==
    IF IsSome(c) /\ p \in DOMAIN Get(c).mtimes THEN {Get(c).mtimes[p]} ELSE {}

FreshMtime(p) ==
    LET used == RecordedMtimes(mem, p) \cup RecordedMtimes(disk, p)
    IN CHOOSE n \in 1..3 : n \notin used /\ \A k \in 1..(n - 1) : k \in used

\* A write to p at this moment: new bytes, new mtime.
WriteFile(fs, p, c) == [fs EXCEPT ![p] = [content |-> c, mtime |-> FreshMtime(p)]]

Verify ==
    /\ pc = "idle"
    /\ \E net \in NetInputs :
       \E v \in {verify_segatoools_for_active(files, mem, disk, bmeta, now, net, cdn)} :
            /\ result' = v.res
            /\ mem' = v.mem
            /\ disk' = v.disk
            /\ lastv' = IF v.res.ok /\ ~v.res.from_cache /\ Get(v.res.status).trusted
                         THEN v.res.status
                         ELSE lastv
    /\ pc' = "returned"
    /\ snap' = NoSnap
    /\ UNCHANGED <<files, bmeta, bfiles, now, job, ext, cdn>>
    /\ UNCHANGED sideVars

\* The caller has the Result; the next call or outside event can happen.
Return ==
    /\ pc = "returned"
    /\ pc' = "idle"
    /\ result' = NoResult
    /\ snap' = IF snap.phase = "deployed" /\ snap.forced_over THEN snap ELSE NoSnap
    /\ UNCHANGED <<files, mem, disk, bmeta, bfiles, now, job, ext, cdn>>
    /\ UNCHANGED <<lastv, sideVars>>

\* ----------------------------------------------------------- environment
\* The history lastv after another program changed p: forgotten when p is
\* one of the files the status checked.
AfterChange(last, p) ==
    IF IsSome(last) /\ \E i \in 1..Len(Get(last).checked_files) :
                          Get(last).checked_files[i].path = p
    THEN None
    ELSE last

\* Another program (or the user) writes, touches or removes a file.
ExtWrite ==
    /\ pc = "idle"
    /\ ext < MaxExt
    /\ ext' = ext + 1
    /\ \E p \in Paths :
         /\ files' = WriteFile(files, p, UserBytes)
         /\ lastv' = AfterChange(lastv, p)
    /\ snap' = NoSnap
    /\ UNCHANGED <<result, mem, disk, bmeta, bfiles, now, pc, job, cdn>>
    /\ UNCHANGED sideVars

ExtTouch ==
    /\ pc = "idle"
    /\ ext < MaxExt
    /\ ext' = ext + 1
    /\ \E p \in Paths :
         /\ exists(files, p)
         /\ files' = WriteFile(files, p, files[p].content)
         /\ lastv' = AfterChange(lastv, p)
    /\ snap' = NoSnap
    /\ UNCHANGED <<result, mem, disk, bmeta, bfiles, now, pc, job, cdn>>
    /\ UNCHANGED sideVars

ExtRemove ==
    /\ pc = "idle"
    /\ ext < MaxExt
    /\ ext' = ext + 1
    /\ \E p \in Paths :
         /\ exists(files, p)
         /\ files' = [files EXCEPT ![p] = NoFile]
         /\ lastv' = AfterChange(lastv, p)
    /\ snap' = NoSnap
    /\ UNCHANGED <<result, mem, disk, bmeta, bfiles, now, pc, job, cdn>>
    /\ UNCHANGED sideVars

\* Time passes.  The program reads the clock only against the cached_at of
\* a cache entry, so time that passes while neither tier holds an entry is
\* not followed.
Tick ==
    /\ pc = "idle"
    /\ IsSome(mem) \/ IsSome(disk)
    /\ now + TickMillis <= MaxClock
    /\ now' = now + TickMillis
    /\ UNCHANGED <<result, files, mem, disk, bmeta, bfiles, pc, job, snap, ext, cdn>>
    /\ UNCHANGED <<lastv, sideVars>>

\* The launcher is closed and started again: the process-wide map is empty,
\* the files stay.
Restart ==
    /\ pc = "idle"
    /\ IsSome(mem)
    /\ mem' = None
    /\ UNCHANGED <<result, files, disk, bmeta, bfiles, now, pc, job, snap, ext, cdn>>
    /\ UNCHANGED <<lastv, sideVars>>

\* ----------------------------------------------------------------- deploy
collect_zip_entries(body) ==
    [i \in 1..Len(ZipOf(body)) |-> ZipOf(body)[i].name]

\* Variant that reports every zip entry as existing.
existing_entries_all(fs, entries) == entries

\* The entries that exist under the root, in zip order.
existing_entries(fs, entries) ==
    LET onDisk(rel) == exists(fs, rel)
    IN SelectSeq(entries, onDisk)

\* Variant that never backs up.
first_step_extract(existing) == "extract"

\* What deploy does after the probe: back up first if anything exists.
first_step(existing) == IF existing # <<>> THEN "backup_clear" ELSE "extract"

DeployErr(err, log) ==
    [op |-> "deploy", ok |-> FALSE, err |-> err,
     deployed |-> FALSE, needs_confirmation |-> FALSE, existing_files |-> <<>>,
     backup_dir |-> FALSE, verification |-> None, net |-> log,
     force |-> FALSE, body |-> None]

\* deploy_segatoools_for_active up to the probe: fetch, select, download,
\* enumerate, and either return or go on to backup / extraction.
DeployBegin ==
    /\ pc = "idle"
    /\ \E force \in BOOLEAN, net \in NetInputs :
         LET fm == fetch_manifest(net, cdn)
             log0 == NetLog(fm, FALSE, [seen |-> None])
         IN
         IF ~fm.ok
         THEN /\ result' = DeployErr(fm.err, log0)
              /\ pc' = "returned"
              /\ snap' = NoSnap
              /\ job' = job
         ELSE IF ~IsSome(select_artifact(Get(fm.manifest), ActiveGameName))
         THEN /\ result' = DeployErr(TrustedError("NotFound", "No trusted artifact found for game"), log0)
              /\ pc' = "returned"
              /\ snap' = NoSnap
              /\ job' = job
         ELSE
         LET manifest == Get(fm.manifest)
             artifact == Get(select_artifact(manifest, ActiveGameName))
             dl == download_artifact(artifact, net)
             log1 == NetLog(fm, TRUE, dl)
         IN
         IF ~dl.ok
         THEN /\ result' = DeployErr(dl.err, log1)
              /\ pc' = "returned"
              /\ snap' = NoSnap
              /\ job' = job
         ELSE
         LET entries == collect_zip_entries(Get(dl.body))
             existing == existing_entries(files, entries)
         IN
         IF existing # <<>> /\ ~force
         THEN /\ result' = [op |-> "deploy", ok |-> TRUE, err |-> NoErr,
                            deployed |-> FALSE, needs_confirmation |-> TRUE,
                            existing_files |-> existing, backup_dir |-> FALSE,
                            verification |-> None, net |-> log1,
                            force |-> force, body |-> dl.body]
              /\ pc' = "returned"
              /\ snap' = NoSnap
              /\ job' = job
         ELSE /\ pc' = first_step(existing)
              /\ job' = [op |-> "deploy", force |-> force, manifest |-> manifest,
                         artifact |-> artifact, body |-> Get(dl.body),
                         entries |-> entries, existing |-> existing, idx |-> 1,
                         backed_up |-> <<>>, new_files |-> <<>>, net |-> log1]
              /\ snap' = [phase |-> "deploying", contents |-> ContentsOf(files),
                          forced_over |-> existing # <<>>]
              /\ result' = NoResult
    /\ lastv' = None
    /\ UNCHANGED <<files, mem, disk, bmeta, bfiles, now, ext, cdn>>
    /\ UNCHANGED sideVars

\* backup_existing: remove an old Segatools_Backup, create files/.
BackupClear ==
    /\ pc = "backup_clear"
    /\ bmeta' = None
    /\ bfiles' = [p \in Paths |-> Absent]
    /\ pc' = "backup_copy"
    /\ UNCHANGED <<files, mem, disk, now, job, result, snap, ext, cdn>>
    /\ UNCHANGED <<lastv, sideVars>>

\* Variant that treats every entry as existing.
backup_entry_all(fs, bf, j) ==
    LET entry == j.entries[j.idx]
    IN [bfiles |-> [bf EXCEPT ![entry] = fs[entry].content],
        job |-> [j EXCEPT !.idx = @ + 1, !.backed_up = Append(@, entry)]]

\* One turn of backup_existing's loop over the entries: the backup files
\* and the two lists afterwards.
backup_entry(fs, bf, j) ==
    LET entry == j.entries[j.idx]
    IN IF exists(fs, entry)
       THEN [bfiles |-> [bf EXCEPT ![entry] = fs[entry].content],
             job |-> [j EXCEPT !.idx = @ + 1, !.backed_up = Append(@, entry)]]
       ELSE [bfiles |-> bf,
             job |-> [j EXCEPT !.idx = @ + 1, !.new_files = Append(@, entry)]]

BackupCopy ==
    /\ pc = "backup_copy"
    /\ job.idx <= Len(job.entries)
    /\ bfiles' = backup_entry(files, bfiles, job).bfiles
    /\ job' = backup_entry(files, bfiles, job).job
    /\ UNCHANGED <<files, mem, disk, bmeta, now, pc, result, snap, ext, cdn>>
    /\ UNCHANGED <<lastv, sideVars>>

\* The BackupMetadata that backup_existing writes (created_at, a time
\* stamp nothing reads, is left out).
BackupMetadata(j) ==
    [artifact_name |-> j.artifact.name,
     artifact_sha256 |-> j.artifact.sha256,
     build_id |-> Some(j.manifest.build_id),
     backed_up_files |-> j.backed_up,
     new_files |-> j.new_files]

\* backup_existing: write metadata.json; extraction comes next.
BackupWriteMeta ==
    /\ pc = "backup_copy"
    /\ job.idx > Len(job.entries)
    /\ bmeta' = Some(BackupMetadata(job))
    /\ pc' = "extract"
    /\ job' = [job EXCEPT !.idx = 1]
    /\ UNCHANGED <<files, mem, disk, bfiles, now, result, snap, ext, cdn>>
    /\ UNCHANGED <<lastv, sideVars>>

\* extract_artifact: one zip entry written over the root.
ExtractEntry ==
    /\ pc = "extract"
    /\ job.idx <= Len(ZipOf(job.body))
    /\ LET e == ZipOf(job.body)[job.idx]
       IN files' = WriteFile(files, e.name, e.bytes)
    /\ job' = [job EXCEPT !.idx = @ + 1]
    /\ UNCHANGED <<mem, disk, bmeta, bfiles, now, pc, result, snap, ext, cdn>>
    /\ UNCHANGED <<lastv, sideVars>>

\* The end of deploy: verify what was extracted, store the status, return.
DeployFinish ==
    /\ pc = "extract"
    /\ job.idx > Len(ZipOf(job.body))
    /\ LET expected == expected_files(job.artifact, Some(job.body))
           verification == check_files(files, Get(expected), job.artifact,
                                       job.manifest, bmeta, now)
           stored == store_status_for(files, mem, disk, now, verification)
       IN /\ mem' = stored.mem
          /\ disk' = stored.disk
          /\ result' = [op |-> "deploy", ok |-> TRUE, err |-> NoErr,
                        deployed |-> TRUE, needs_confirmation |-> FALSE,
                        existing_files |-> job.existing,
                        backup_dir |-> job.existing # <<>>,
                        verification |-> Some(verification), net |-> job.net,
                        force |-> job.force, body |-> Some(job.body)]
    /\ pc' = "returned"
    /\ job' = NoJob
    /\ snap' = [snap EXCEPT !.phase = "deployed"]
    /\ UNCHANGED <<files, bmeta, bfiles, now, ext, cdn>>
    /\ UNCHANGED <<lastv, sideVars>>

\* A file-system call of backup or extraction returns an error, and `?`
\* returns it from deploy: nothing more is done.
DeployFail ==
    /\ pc \in {"backup_clear", "backup_copy", "extract"}
    /\ pc = "extract" => job.idx <= Len(ZipOf(job.body))
    /\ result' = DeployErr(TrustedError("Io", "io"), job.net)
    /\ pc' = "returned"
    /\ job' = NoJob
    /\ snap' = [snap EXCEPT !.phase = "failed"]
    /\ UNCHANGED <<files, mem, disk, bmeta, bfiles, now, ext, cdn>>
    /\ UNCHANGED <<lastv, sideVars>>

\* extract_artifact fails inside io::copy: File::create has truncated the
\* target and only part of the entry was written.
ExtractFailPartial ==
    /\ pc = "extract"
    /\ job.idx <= Len(ZipOf(job.body))
    /\ LET e == ZipOf(job.body)[job.idx]
       IN files' = WriteFile(files, e.name, PartialBytes)
    /\ result' = DeployErr(TrustedError("Io", "io"), job.net)
    /\ pc' = "returned"
    /\ job' = NoJob
    /\ snap' = [snap EXCEPT !.phase = "failed"]
    /\ UNCHANGED <<mem, disk, bmeta, bfiles, now, ext, cdn>>
    /\ UNCHANGED <<lastv, sideVars>>

\* --------------------------------------------------------------- rollback
RollbackErr(err) ==
    [op |-> "rollback", ok |-> FALSE, err |-> err, restored |-> FALSE,
     verification |-> None, from_cache |-> FALSE, had_entry |-> FALSE]

\* Where rollback stands once the copy loop is at index i.
AfterCopyPc(meta, i) ==
    IF i <= Len(meta.backed_up_files) THEN "rollback_copy"
    ELSE IF meta.new_files # <<>> THEN "rollback_delete"
    ELSE "rollback_verify"

\* rollback_segatoools_for_active up to the first copy: require
\* metadata.json, read it, clear the cached status.  had_entry (history):
\* a tier held an entry for the root when rollback was called.
RollbackBegin ==
    /\ pc = "idle"
    /\ IF ~IsSome(bmeta)
       THEN /\ result' = RollbackErr(TrustedError("NotFound", "No segatools backup available to roll back"))
            /\ pc' = "returned"
            /\ snap' = NoSnap
            /\ UNCHANGED <<mem, disk, job>>
       ELSE /\ mem' = clear_cached_status(mem, disk).mem
            /\ disk' = clear_cached_status(mem, disk).disk
            /\ pc' = AfterCopyPc(Get(bmeta), 1)
            /\ job' = [op |-> "rollback", meta |-> Get(bmeta), idx |-> 1,
                       had_entry |-> IsSome(mem) \/ IsSome(disk)]
            /\ result' = NoResult
            /\ snap' = IF snap.phase = "deployed" /\ snap.forced_over
                       THEN [snap EXCEPT !.phase = "rollingback"]
                       ELSE NoSnap
    /\ lastv' = None
    /\ UNCHANGED <<files, bmeta, bfiles, now, ext, cdn>>
    /\ UNCHANGED sideVars

\* fs::copy of one backed-up file back over the root.
restore_file(fs, bf, file) == WriteFile(fs, file, bf[file])

RollbackCopy ==
    /\ pc = "rollback_copy"
    /\ LET file == job.meta.backed_up_files[job.idx]
       IN /\ bfiles[file] # Absent
          /\ files' = restore_file(files, bfiles, file)
    /\ pc' = AfterCopyPc(job.meta, job.idx + 1)
    /\ job' = [job EXCEPT !.idx = IF job.idx + 1 <= Len(job.meta.backed_up_files)
                                  THEN job.idx + 1 ELSE 1]
    /\ UNCHANGED <<mem, disk, bmeta, bfiles, now, result, snap, ext, cdn>>
    /\ UNCHANGED <<lastv, sideVars>>

\* fs::copy (or ensure_parent) returns an error: rollback returns it.
RollbackFail ==
    /\ pc = "rollback_copy"
    /\ result' = RollbackErr(TrustedError("Io", "io"))
    /\ pc' = "returned"
    /\ job' = NoJob
    /\ snap' = NoSnap
    /\ UNCHANGED <<files, mem, disk, bmeta, bfiles, now, ext, cdn>>
    /\ UNCHANGED <<lastv, sideVars>>

\* Variant that deletes nothing.
remove_new_file_keep(fs, file) == fs

\* One entry of new_files deleted if it is there.
remove_new_file(fs, file) ==
    IF exists(fs, file) THEN [fs EXCEPT ![file] = NoFile] ELSE fs

RollbackDelete ==
    /\ pc = "rollback_delete"
    /\ files' = remove_new_file(files, job.meta.new_files[job.idx])
    /\ pc' = IF job.idx + 1 <= Len(job.meta.new_files)
             THEN "rollback_delete" ELSE "rollback_verify"
    /\ job' = [job EXCEPT !.idx = @ + 1]
    /\ UNCHANGED <<mem, disk, bmeta, bfiles, now, result, snap, ext, cdn>>
    /\ UNCHANGED <<lastv, sideVars>>

\* The end of rollback: verify_segatoools_for_active().ok(), return.
RollbackVerify ==
    /\ pc = "rollback_verify"
    /\ \E net \in NetInputs :
         LET v == verify_segatoools_for_active(files, mem, disk, bmeta, now, net, cdn)
         IN /\ mem' = v.mem
            /\ disk' = v.disk
            /\ result' = [op |-> "rollback", ok |-> TRUE, err |-> NoErr,
                          restored |-> TRUE,
                          verification |-> IF v.res.ok THEN v.res.status ELSE None,
                          from_cache |-> v.res.from_cache,
                          had_entry |-> job.had_entry]
    /\ pc' = "returned"
    /\ job' = NoJob
    /\ snap' = IF snap.phase = "rollingback"
               THEN [snap EXCEPT !.phase = "rolledback"]
               ELSE NoSnap
    /\ UNCHANGED <<files, bmeta, bfiles, now, ext, cdn>>
    /\ UNCHANGED <<lastv, sideVars>>

\* ---------------------------------------------------------- specifications
\* Verify, deploy and rollback with other programs changing files, at one
\* moment of the clock.
Next ==
    \/ Verify
    \/ Return
    \/ DeployBegin
    \/ BackupClear
    \/ BackupCopy
    \/ BackupWriteMeta
    \/ ExtractEntry
    \/ DeployFinish
    \/ DeployFail
    \/ ExtractFailPartial
    \/ RollbackBegin
    \/ RollbackCopy
    \/ RollbackFail
    \/ RollbackDelete
    \/ RollbackVerify
    \/ ExtWrite
    \/ ExtTouch
    \/ ExtRemove
    \/ Restart

Spec == Init /\ [][Next]_vars

\* Verify against the cache as time passes, on a root where the trusted
\* build has been deployed.
InitClock ==
    /\ files = [p \in Paths |-> IF p \in GameFiles
                                 THEN [content |-> UserBytes, mtime |-> 1]
                                 ELSE [content |-> BuildBytes, mtime |-> 1]]
    /\ mem = None
    /\ disk = None
    /\ bmeta = None
    /\ bfiles = [p \in Paths |-> Absent]
    /\ now = 0
    /\ pc = "idle"
    /\ job = NoJob
    /\ result = NoResult
    /\ ext = 0
    /\ cdn \in 1..Len(Manifests)
    /\ snap = NoSnap
    /\ lastv = None
    /\ arg = NoArg
    /\ ret = NoRet
    /\ dfs = NoDisk
    /\ run = NoRun
    /\ shadow = NoShadow

NextClock ==
    \/ Verify
    \/ Return
    \/ Tick
    \/ Restart
    \/ ExtWrite
    \/ ExtTouch
    \/ ExtRemove

SpecClock == InitClock /\ [][NextClock]_vars

\* ------------------------------------------------- check_files on its own
\* Longest expected-file list given to check_files.
MaxExpected == 2

\* The expected-file lists: up to MaxExpected entries over the paths, each
\* with the digest of the build's bytes or of other bytes.
ExpectedLists ==
    LET entries == {TrustedFile(p, c) : p \in Paths, c \in {UserBytes, BuildBytes}}
    IN UNION {[1..k -> entries] : k \in 0..MaxExpected}

\* Any disk state of the root and any expected-file list.
InitCheckFiles ==
    /\ files \in [Paths -> {NoFile} \cup
                     {[content |-> c, mtime |-> 1] :
                          c \in {UserBytes, BuildBytes, UnreadableBytes}}]
    /\ mem = None
    /\ disk = None
    /\ bmeta = None
    /\ bfiles = [p \in Paths |-> Absent]
    /\ now = 0
    /\ pc = "idle"
    /\ job = NoJob
    /\ result = NoResult
    /\ ext = 0
    /\ cdn = 1
    /\ snap = NoSnap
    /\ lastv = None
    /\ arg \in {[fn |-> "check_files", files |-> l] : l \in ExpectedLists}
    /\ ret = NoRet
    /\ dfs = NoDisk
    /\ run = NoRun
    /\ shadow = NoShadow

CallCheckFiles ==
    /\ arg.fn = "check_files"
    /\ ret = NoRet
    /\ ret' = [fn |-> "check_files",
               status |-> check_files(files, arg.files,
                                      Manifests[cdn].artifacts[1],
                                      Manifests[cdn], bmeta, now)]
    /\ UNCHANGED <<trustVars, arg, decVars>>

NextCheckFiles == CallCheckFiles

SpecCheckFiles == InitCheckFiles /\ [][NextCheckFiles]_vars

\* -------------------------------------------------- parse_key_file on its own
\* Longest games object of a keys document.
MaxEntries == 3

\* The members a games object may have, in the order of the document: a
\* raw id and a GameKeyEntry (hex fields that decode to 16 bytes).
KeyEntries ==
    {[id |-> id, entry |-> e] :
        id \in {"SDEZ", "sdez ", "SDDT"},
        e \in {GameKeys("key:1", Some("iv:1")), GameKeys("key:2", None)}}

KeyDocuments == UNION {[1..k -> KeyEntries] : k \in 0..MaxEntries}

\* serde_json into HashMap<String, GameKeyEntry>: one entry per raw id, the
\* later member replacing the earlier one of the same id.
from_str_games(doc) ==
    [id \in {doc[i].id : i \in DOMAIN doc} |->
        LET at == {i \in DOMAIN doc : doc[i].id = id}
        IN doc[CHOOSE i \in at : \A j \in at : j <= i].entry]

\* The orders in which a HashMap with RandomState may hand out its entries.
IterationOrders(map) ==
    {q \in [1..Cardinality(DOMAIN map) -> DOMAIN map] :
        \A i, j \in DOMAIN q : i # j => q[i] # q[j]}

\* The loop of parse_key_file over parsed.games, handed out in order:
\* games.insert(id.trim().to_uppercase(), GameKeys { key, iv }).
RECURSIVE insert_games(_, _, _)
insert_games(parsed, order, games) ==
    IF order = <<>> THEN games
    ELSE LET id == Head(order)
             k == to_uppercase(trim(id))
         IN insert_games(parsed, Tail(order),
                         [x \in DOMAIN games \cup {k} |->
                             IF x = k THEN parsed[id] ELSE games[x]])

\* parse_key_file: the games map of FsDecryptKeys.
parse_key_file(parsed, order) == insert_games(parsed, order, <<>>)

\* Any keys document; nothing loaded yet.
InitKeys ==
    /\ files = [p \in Paths |-> IF p \in GameFiles
                                 THEN [content |-> UserBytes, mtime |-> 1]
                                 ELSE NoFile]
    /\ mem = None
    /\ disk = None
    /\ bmeta = None
    /\ bfiles = [p \in Paths |-> Absent]
    /\ now = 0
    /\ pc = "idle"
    /\ job = NoJob
    /\ result = NoResult
    /\ ext = 0
    /\ cdn = 1
    /\ snap = NoSnap
    /\ lastv = None
    /\ arg \in {[fn |-> "load_keys", doc |-> d] : d \in KeyDocuments}
    /\ ret = NoRet
    /\ dfs = NoDisk
    /\ run = NoRun
    /\ shadow = NoShadow

\* read_keys_from_file / read_keys_from_url on the document: the first and
\* the second load of the same document.
LoadKeys ==
    /\ arg.fn = "load_keys"
    /\ IF ret = NoRet THEN TRUE ELSE Len(ret.loads) < 2
    /\ LET parsed == from_str_games(arg.doc)
       IN \E order \in IterationOrders(parsed) :
            ret' = [fn |-> "load_keys",
                    loads |-> Append(IF ret = NoRet THEN <<>> ELSE ret.loads,
                                     parse_key_file(parsed, order))]
    /\ UNCHANGED <<trustVars, arg, decVars>>

NextKeys == LoadKeys

SpecKeys == InitKeys /\ [][NextKeys]_vars

\* ---------------------------------------------- select_artifact on its own
\* Longest artifact list of a manifest given to select_artifact.
MaxArtifacts == 3

\* Game.name values: the three games in several spellings, an sdez title,
\* and names of no trusted game.
GameNames ==
    {" Chunithm", "CHUNITHM", "chunithm", "sinmai", " SDEZ 1.50", "sdez",
     "Ongeki ", "ongeki", "maimai", "chunithm2"}

\* The artifacts a manifest may list: the candidates in several spellings,
\* two spellings of chusan.zip with different contents, one chusan.zip that
\* is not of kind component, and an artifact of no game.
ArtifactPool ==
    {Artifact("chusan.zip", sha256_reader("zip1"), <<>>),
     Artifact("CHUSAN.ZIP", sha256_reader("zipX"), <<>>),
     [Artifact("chusan.zip", sha256_reader("zip1"), <<>>) EXCEPT !.kind = "installer"],
     Artifact("chuni.zip", sha256_reader("zip1"), <<>>),
     Artifact("Mai2.zip", sha256_reader("zip1"), <<>>),
     Artifact("MU3.ZIP", sha256_reader("zip1"), <<>>),
     Artifact("other.zip", sha256_reader("zip1"), <<>>)}

\* Manifests with up to MaxArtifacts different artifacts in any order.
SelectManifests ==
    {[build_id |-> "b1", artifacts |-> l] :
        l \in {q \in UNION {[1..k -> ArtifactPool] : k \in 0..MaxArtifacts} :
                  \A i, j \in DOMAIN q : i # j => q[i] # q[j]}}

\* Any such manifest and any game name.
InitSelect ==
    /\ files = [p \in Paths |-> IF p \in GameFiles
                                 THEN [content |-> UserBytes, mtime |-> 1]
                                 ELSE NoFile]
    /\ mem = None
    /\ disk = None
    /\ bmeta = None
    /\ bfiles = [p \in Paths |-> Absent]
    /\ now = 0
    /\ pc = "idle"
    /\ job = NoJob
    /\ result = NoResult
    /\ ext = 0
    /\ cdn = 1
    /\ snap = NoSnap
    /\ lastv = None
    /\ arg \in {[fn |-> "select_artifact", manifest |-> m, name |-> n] :
                   m \in SelectManifests, n \in GameNames}
    /\ ret = NoRet
    /\ dfs = NoDisk
    /\ run = NoRun
    /\ shadow = NoShadow

CallSelectArtifact ==
    /\ arg.fn = "select_artifact"
    /\ ret = NoRet
    /\ ret' = [fn |-> "select_artifact",
               artifact |-> select_artifact(arg.manifest, arg.name)]
    /\ UNCHANGED <<trustVars, arg, decVars>>

NextSelect == CallSelectArtifact

SpecSelect == InitSelect /\ [][NextSelect]_vars

\* ------------------------------------------------- decrypt_game_files
\* Path::to_string_lossy: the path as text, a non-UTF-8 name replaced.
to_string_lossy(path) ==
    IF path.stem = InvalidId THEN [path EXCEPT !.stem = "\\uFFFD"] ELSE path

\* Variant that records a panic's message without marking the entry failed.
record_outcome_panic_unflagged(o) ==
    IF o.kind = "ok" THEN o.entry
    ELSE [o.entry EXCEPT !.error = Some([panic |-> o.kind = "panic", msg |-> o.msg]),
                         !.failed = (o.kind = "err")]

\* The match on catch_unwind's result in decrypt_game_files: an Err or a
\* panic becomes the entry's error and failed.
record_outcome(o) ==
    IF o.kind = "ok" THEN o.entry
    ELSE [o.entry EXCEPT !.error = Some([panic |-> o.kind = "panic", msg |-> o.msg]),
                         !.failed = TRUE]

G_two == Geometry(3, PAGE_SIZE, 1)
G_half == Geometry(3, PAGE_SIZE \div 2, 1)
G_neg == Geometry(1, PAGE_SIZE, 2)
G_wrap == Geometry(U64 \div PAGE_SIZE + 1, PAGE_SIZE, U64 \div PAGE_SIZE)
G_big == Geometry(U64 \div PAGE_SIZE, PAGE_SIZE, 0)
Geometries == {G_two, G_half, G_neg, G_wrap, G_big}
G_three == Geometry(4, PAGE_SIZE, 1)

\* The length of a container file that holds all its blocks, and of one cut
\* 8 bytes into its first data page.
FullLen(bootid) ==
    IF bootid.block_count >= bootid.header_block_count
    THEN bootid.block_count * bootid.block_size
    ELSE bootid.header_block_count * bootid.block_size
CutLen(bootid) == bootid.header_block_count * bootid.block_size + 8

\* The length of a container file that ends one cipher block into its
\* second data page.
ShortLen(bootid) ==
    bootid.header_block_count * bootid.block_size + PAGE_SIZE + 16

\* How a container gets its file IV: from the key file (SDEZ), from the
\* first page because the header says so or because the key file has no IV
\* for the game (sdx, padded with a blank in the header), or not at all
\* because the game has no key (SDGA).
IvCases == {<<FALSE, "SDEZ">>, <<TRUE, "SDEZ">>, <<FALSE, "sdx ">>, <<FALSE, "SDGA">>}

\* The containers an input path may hold: every kind, IV case and geometry,
\* whole, and cut for the geometries with data pages; one of an unknown
\* kind, two with an id that is not UTF-8, one shorter than a header, and
\* one of three data pages that ends in its second.
InputFiles ==
    LET core(gs) == {BootId(ct, c[1], "ACA", c[2], g) :
                        ct \in {ContainerType_OS, ContainerType_APP, ContainerType_OPTION},
                        c \in IvCases, g \in gs}
        unknown == BootId(9, FALSE, "ACA", "SDEZ", G_two)
        bad_os == BootId(ContainerType_APP, FALSE, InvalidId, "SDEZ", G_two)
        bad_game == BootId(ContainerType_OS, FALSE, "ACA", InvalidId, G_two)
        three == BootId(ContainerType_APP, FALSE, "ACA", "SDEZ", G_three)
    IN {AbsentFile}
       \cup {Container(h, FullLen(h)) :
                 h \in core(Geometries) \cup {unknown, bad_os, bad_game}}
       \cup {Container(h, CutLen(h)) : h \in core({G_two, G_wrap})}
       \cup {Container(unknown, 8), Container(three, ShortLen(three))}

\* What the second input path holds.
OtherFiles ==
    LET app == BootId(ContainerType_APP, FALSE, "ACA", "SDEZ", G_two)
        opt == BootId(ContainerType_OPTION, TRUE, "ACA", "SDEZ", G_two)
        unknown == BootId(9, FALSE, "ACA", "SDEZ", G_two)
    IN {Container(app, FullLen(app)), Container(opt, FullLen(opt)),
        Container(unknown, FullLen(unknown))}

\* The input lists of a call: PathBuf::from of the strings of the game's
\* configuration (commands.rs), up to MaxBatch of them.
Batches == UNION {[1..k -> InputPaths] : k \in 0..MaxBatch}

InitDecrypt ==
    /\ files = [p \in Paths |-> IF p \in GameFiles
                                 THEN [content |-> UserBytes, mtime |-> 1]
                                 ELSE NoFile]
    /\ mem = None
    /\ disk = None
    /\ bmeta = None
    /\ bfiles = [p \in Paths |-> Absent]
    /\ now = 0
    /\ pc = "idle"
    /\ job = NoJob
    /\ result = NoResult
    /\ ext = 0
    /\ cdn = 1
    /\ snap = NoSnap
    /\ lastv = None
    /\ arg = NoArg
    /\ ret = NoRet
    /\ \E f1 \in InputFiles, f2 \in OtherFiles :
         dfs = [p \in DPaths |-> IF p = DPath("in1", "app") THEN f1
                                 ELSE IF p = DPath("in2", "app") THEN f2
                                 ELSE AbsentFile]
    /\ run = NoRun
    /\ shadow = NoShadow

\* decrypt_game_files is called and load_keys returns the key material.
DecryptStart ==
    /\ run.pc = "idle"
    /\ \E batch \in Batches, no_extract \in BOOLEAN :
         run' = [pc |-> "loop", files |-> batch, no_extract |-> no_extract,
                 results |-> <<>>, outcomes |-> <<>>, traces |-> <<>>,
                 before |-> <<>>]
    /\ shadow' = [fs |-> dfs, results |-> <<>>]
    /\ UNCHANGED <<trustVars, arg, ret, dfs>>

\* decrypt_game_files is called and load_keys fails: the call returns the
\* error and no summary.
DecryptKeysFail ==
    /\ run.pc = "idle"
    /\ \E batch \in Batches, no_extract \in BOOLEAN :
         run' = [pc |-> "keys_failed", files |-> batch, no_extract |-> no_extract,
                 results |-> <<>>, outcomes |-> <<>>, traces |-> <<>>,
                 before |-> <<>>]
    /\ UNCHANGED <<trustVars, arg, ret, dfs, shadow>>

\* One iteration of the loop over files: decrypt_container under
\* catch_unwind, the match on its outcome, and the push of the entry.
\* outcomes, traces and before (history) keep how the call ended, what it
\* did and the disk it started from.  The shadow call is the same call on
\* a disk that no failed input has touched: it keeps the result of every
\* input and the effects of those that did not fail.
DecryptFile ==
    /\ run.pc = "loop"
    /\ Len(run.results) < Len(run.files)
    /\ \E ch \in Chances :
         LET path == run.files[Len(run.results) + 1]
             o == decrypt_container(dfs, path, run.no_extract, FsDecryptKeys,
                                    NewEntry(to_string_lossy(path)), ch)
             entry == record_outcome(o)
             so == decrypt_container(shadow.fs, path, run.no_extract, FsDecryptKeys,
                                     NewEntry(to_string_lossy(path)), ch)
         IN /\ dfs' = o.fs
            /\ run' = [run EXCEPT !.results = Append(@, entry),
                                  !.outcomes = Append(@, o.kind),
                                  !.traces = Append(@, o.trace),
                                  !.before = Append(@, dfs)]
            /\ shadow' = [fs |-> IF so.kind = "ok" THEN so.fs ELSE shadow.fs,
                          results |-> Append(shadow.results, record_outcome(so))]
    /\ UNCHANGED <<trustVars, arg, ret>>

\* The loop is over: decrypt_game_files returns the summary.
DecryptReturn ==
    /\ run.pc = "loop"
    /\ Len(run.results) = Len(run.files)
    /\ run' = [run EXCEPT !.pc = "done"]
    /\ UNCHANGED <<trustVars, arg, ret, dfs, shadow>>

NextDecrypt ==
    \/ DecryptStart
    \/ DecryptKeysFail
    \/ DecryptFile
    \/ DecryptReturn

SpecDecrypt == InitDecrypt /\ [][NextDecrypt]_vars

\* ------------------------------------- decrypt_game_files with progress
\* The call with a progress callback.  Time is followed in milliseconds
\* as far as the two rate limits look: the 120 ms between byte reports of
\* decrypt_container and the 150 ms between coalesced events.
ReportMillis == 120
EmitMillis == 150
Elapsed == {0, 60, 150}
elapse(since, dt) == IF since + dt > EmitMillis THEN EmitMillis ELSE since + dt

\* What the environment does to the files of a call with progress.
ProgressChances ==
    {ch \in Chances : ch.checked /\ ch.ex # "fail_partial" /\ ch.io \in {"none", "write"}}

\* The containers the first input path may hold: of two pages, whole and
\* cut in its first page, of three pages cut in the second, of one page,
\* of no page, of a size beyond u64, of an unknown kind with a size beyond
\* u64; a file shorter than a header; nothing.
ProgressFiles ==
    LET app(g) == BootId(ContainerType_APP, FALSE, "ACA", "SDEZ", g)
        opt(g) == BootId(ContainerType_OPTION, FALSE, "ACA", "SDEZ", g)
        unknown(g) == BootId(9, FALSE, "ACA", "SDEZ", g)
    IN {AbsentFile, Container(unknown(G_two), 8),
        Container(app(G_two), FullLen(app(G_two))),
        Container(app(G_two), CutLen(app(G_two))),
        Container(app(G_three), ShortLen(app(G_three))),
        Container(opt(G_half), FullLen(opt(G_half))),
        Container(app(G_neg), FullLen(app(G_neg))),
        Container(app(G_big), FullLen(app(G_big))),
        Container(unknown(G_big), FullLen(unknown(G_big)))}

\* What the second input path holds.
OtherProgressFiles ==
    LET app == BootId(ContainerType_APP, FALSE, "ACA", "ACA", G_two)
        unknown == BootId(9, FALSE, "ACA", "SDEZ", G_big)
    IN {AbsentFile, Container(app, FullLen(app)),
        Container(unknown, FullLen(unknown))}

\* The estimate decrypt_game_files makes for an input: the output size of
\* its header if 96 bytes can be read, else the file's length, else 0.
estimate_size(file) ==
    IF file.k = "enc" /\ file.len >= BootIdSize
    THEN output_size_from_bootid(file.hdr)
    ELSE IF file.k \in {"enc", "plain"} THEN file.len
    ELSE 0

\* file_sizes and total_bytes for the inputs.
file_sizes(fs, inputs) == [i \in DOMAIN inputs |-> estimate_size(fs[inputs[i]])]

RECURSIVE sum_sizes(_, _)
sum_sizes(sizes, n) ==
    IF n = 0 THEN 0 ELSE saturating_add(sum_sizes(sizes, n - 1), sizes[n])

total_bytes(sizes) ==
    IF sum_sizes(sizes, Len(sizes)) = 0 THEN 1 ELSE sum_sizes(sizes, Len(sizes))

\* The percent emit_progress computes.
percent_of(processed, total) ==
    LET q == saturating_div(saturating_mul(processed, 100), total)
    IN IF q > 100 THEN 100 ELSE q

\* The DecryptProgress handed to the callback, with how it came about
\* (history): whether it was forced, the percent of the event before it
\* and the time since that event.
ProgressEvent(p, processed, current_file, force) ==
    [percent |-> percent_of(processed, p.total), processed |-> processed,
     total |-> p.total, current_file |-> current_file,
     total_files |-> Len(p.files),
     forced |-> force, prev_percent |-> p.last_percent, gap |-> p.since_emit]

\* Variant that hands every update to the callback.
emit_progress_always(p, processed, current_file, force) ==
    [p EXCEPT !.last_percent = percent_of(processed, p.total),
              !.since_emit = 0,
              !.event = ProgressEvent(p, processed, current_file, force),
              !.emitted = @ + 1,
              !.seen = @ \cup {current_file}]

\* emit_progress: the event is handed to the callback when forced, when
\* the percent differs from the last one handed over, or when 150 ms have
\* passed since.  seen (history) collects the current_file of the events.
emit_progress(p, processed, current_file, force) ==
    IF force \/ percent_of(processed, p.total) # p.last_percent
             \/ p.since_emit >= EmitMillis
    THEN [p EXCEPT !.last_percent = percent_of(processed, p.total),
                   !.since_emit = 0,
                   !.event = ProgressEvent(p, processed, current_file, force),
                   !.emitted = @ + 1,
                   !.seen = @ \cup {current_file}]
    ELSE p

\* Variant that takes the bytes of the current input for the total so far.
report_progress_in_file(p, processed_in_file) ==
    LET clamped == IF processed_in_file > p.total THEN p.total ELSE processed_in_file
    IN emit_progress([p EXCEPT !.last_in_file = processed_in_file,
                               !.processed_total = clamped],
                     clamped, p.done + 1, FALSE)

\* report_progress(processed_in_file) of the current input.
report_progress(p, processed_in_file) ==
    LET delta == saturating_sub(processed_in_file, p.last_in_file)
        sum == saturating_add(p.processed_total, delta)
        clamped == IF sum > p.total THEN p.total ELSE sum
    IN emit_progress([p EXCEPT !.last_in_file = processed_in_file,
                               !.processed_total = clamped],
                     clamped, p.done + 1, FALSE)

\* Variant that tops off without forcing the event.
top_off_unforced(p, estimated) ==
    IF p.last_in_file < estimated
    THEN LET sum == saturating_add(p.processed_total, estimated - p.last_in_file)
             clamped == IF sum > p.total THEN p.total ELSE sum
         IN emit_progress([p EXCEPT !.processed_total = clamped],
                          clamped, p.done + 1, FALSE)
    ELSE p

\* After the input's decrypt_container has returned: if fewer bytes than
\* the estimate were reported, add the shortfall and force an event.
top_off(p, estimated) ==
    IF p.last_in_file < estimated
    THEN LET sum == saturating_add(p.processed_total, estimated - p.last_in_file)
             clamped == IF sum > p.total THEN p.total ELSE sum
         IN emit_progress([p EXCEPT !.processed_total = clamped],
                          clamped, p.done + 1, TRUE)
    ELSE p

\* Any two input files; no call yet.
InitProgress ==
    /\ files = [p \in Paths |-> IF p \in GameFiles
                                 THEN [content |-> UserBytes, mtime |-> 1]
                                 ELSE NoFile]
    /\ mem = None
    /\ disk = None
    /\ bmeta = None
    /\ bfiles = [p \in Paths |-> Absent]
    /\ now = 0
    /\ pc = "idle"
    /\ job = NoJob
    /\ result = NoResult
    /\ ext = 0
    /\ cdn = 1
    /\ snap = NoSnap
    /\ lastv = None
    /\ arg = NoArg
    /\ ret = NoRet
    /\ \E f1 \in ProgressFiles, f2 \in OtherProgressFiles :
         dfs = [p \in DPaths |-> IF p = DPath("in1", "app") THEN f1
                                 ELSE IF p = DPath("in2", "app") THEN f2
                                 ELSE AbsentFile]
    /\ run = NoRun
    /\ shadow = NoShadow

\* decrypt_game_files is called with a progress callback: the estimates,
\* total_bytes, and the forced event of the start.
ProgressStart ==
    /\ run.pc = "idle"
    /\ \E batch \in Batches, no_extract \in BOOLEAN :
         LET sizes == file_sizes(dfs, batch)
             p0 == [pc |-> "next", files |-> batch, no_extract |-> no_extract,
                    sizes |-> sizes, total |-> total_bytes(sizes),
                    processed_total |-> 0, last_percent |-> 0, since_emit |-> 0,
                    done |-> 0, event |-> None, emitted |-> 0, seen |-> {},
                    last_in_file |-> 0, pages |-> 0, flushed |-> FALSE,
                    processed |-> 0, last_reported |-> 0, since_report |-> 0,
                    before_top_off |-> 0, kind |-> "none", opened |-> <<>>,
                    on_result |-> <<>>]
         IN run' = emit_progress(p0, 0, 0, TRUE)
    /\ UNCHANGED <<trustVars, arg, ret, dfs, shadow>>

\* The next input: decrypt_container is entered.  pages is the number of
\* turns its page loop will complete and flushed whether it gets past
\* writer.flush().
ProgressFileBegin ==
    /\ run.pc = "next"
    /\ run.done < Len(run.files)
    /\ \E ch \in ProgressChances :
         LET path == run.files[run.done + 1]
             o == decrypt_container(dfs, path, run.no_extract, FsDecryptKeys,
                                    NewEntry(to_string_lossy(path)), ch)
         IN /\ dfs' = o.fs
            /\ run' = [run EXCEPT !.pc = "pages",
                                  !.last_in_file = 0,
                                  !.pages = Len(o.trace.pages),
                                  !.flushed = o.trace.flushed,
                                  !.kind = o.kind,
                                  !.opened = Append(@, Len(run.on_result)),
                                  !.processed = 0,
                                  !.last_reported = 0,
                                  !.since_report = 0]
    /\ UNCHANGED <<trustVars, arg, ret, shadow>>

\* One turn of the page loop, dt milliseconds long: processed grows by a
\* page and is reported if 120 ms have passed since the last report.
ProgressPage ==
    /\ run.pc = "pages"
    /\ run.processed < run.pages * PAGE_SIZE
    /\ \E dt \in Elapsed :
         LET processed == saturating_add(run.processed, PAGE_SIZE)
             p1 == [run EXCEPT !.processed = processed,
                               !.since_emit = elapse(@, dt),
                               !.since_report = elapse(@, dt)]
         IN run' = IF p1.since_report >= ReportMillis
                   THEN report_progress([p1 EXCEPT !.last_reported = processed,
                                                   !.since_report = 0],
                                        processed)
                   ELSE p1
    /\ UNCHANGED <<trustVars, arg, ret, dfs, shadow>>

\* The page loop is over: after writer.flush(), dt milliseconds later, the
\* bytes not yet reported are reported; a call that failed reports nothing.
ProgressFlush ==
    /\ run.pc = "pages"
    /\ run.processed = run.pages * PAGE_SIZE
    /\ \E dt \in Elapsed :
         LET p1 == [run EXCEPT !.pc = "top_off",
                               !.since_emit = elapse(@, dt),
                               !.before_top_off = run.processed_total]
         IN run' = IF run.flushed /\ run.processed # run.last_reported
                   THEN LET p2 == report_progress(p1, run.processed)
                        IN [p2 EXCEPT !.before_top_off = p2.processed_total]
                   ELSE p1
    /\ UNCHANGED <<trustVars, arg, ret, dfs, shadow>>

\* Variant that hands only the inputs that did not fail to on_result.
on_result_cb_ok_only(p) ==
    IF p.kind = "ok"
    THEN [p EXCEPT !.on_result =
              Append(@, [input |-> to_string_lossy(p.files[p.done + 1]),
                         failed |-> FALSE, flushed |-> p.flushed])]
    ELSE p

\* cb(entry.clone()) of on_result: the call is recorded with the input's
\* name, whether it failed and whether its output had been flushed.
on_result_cb(p) ==
    [p EXCEPT !.on_result =
         Append(@, [input |-> to_string_lossy(p.files[p.done + 1]),
                    failed |-> p.kind # "ok", flushed |-> p.flushed])]

\* decrypt_container has returned or panicked: the top-off of the input,
\* the on_result callback and the push of its result.
ProgressTopOff ==
    /\ run.pc = "top_off"
    /\ run' = [on_result_cb(top_off(run, run.sizes[run.done + 1])) EXCEPT
                   !.pc = "next", !.done = run.done + 1]
    /\ UNCHANGED <<trustVars, arg, ret, dfs, shadow>>

\* All inputs are done: processed is set to the total and the last event
\* is forced.
ProgressDone ==
    /\ run.pc = "next"
    /\ run.done = Len(run.files)
    /\ run' = [emit_progress([run EXCEPT !.processed_total = run.total],
                             run.total, Len(run.files), TRUE)
                  EXCEPT !.pc = "done"]
    /\ UNCHANGED <<trustVars, arg, ret, dfs, shadow>>

NextProgress ==
    \/ ProgressStart
    \/ ProgressFileBegin
    \/ ProgressPage
    \/ ProgressFlush
    \/ ProgressTopOff
    \/ ProgressDone

SpecProgress == InitProgress /\ [][NextProgress]_vars

\* ------------------------------------------------ load_keys and its sources
\* Length of a key or IV in bytes.
KeyBytes == 16

\* A hex field is a string of pieces: a blank, the prefix "0x", a byte of
\* two hex digits, a lone hex digit, two characters that are no hex digits.
HexByte == "ab"
Bytes(n) == [i \in 1..n |-> HexByte]
Blanks(n) == [i \in 1..n |-> " "]
Prefixes(n) == [i \in 1..n |-> "0x"]

\* str::trim on a hex field.
RECURSIVE trim_start(_)
trim_start(raw) ==
    IF raw # <<>> /\ Head(raw) = " " THEN trim_start(Tail(raw)) ELSE raw

RECURSIVE trim_end(_)
trim_end(raw) ==
    IF raw # <<>> /\ raw[Len(raw)] = " "
    THEN trim_end(SubSeq(raw, 1, Len(raw) - 1))
    ELSE raw

\* str::trim_start_matches("0x"): every leading "0x" is removed.
RECURSIVE trim_start_matches_0x(_)
trim_start_matches_0x(raw) ==
    IF raw # <<>> /\ Head(raw) = "0x" THEN trim_start_matches_0x(Tail(raw)) ELSE raw

\* hex::decode: an odd number of digits or a character that is no hex digit
\* is an error; otherwise the bytes.
hex_decode(cleaned) ==
    LET lone == Len(SelectSeq(cleaned, LAMBDA t : t = "a"))
    IN IF \E i \in DOMAIN cleaned : cleaned[i] \notin {HexByte, "a"}
       THEN [ok |-> FALSE, error |-> "Invalid hex", bytes |-> <<>>]
       ELSE IF lone % 2 = 1
       THEN [ok |-> FALSE, error |-> "Invalid hex", bytes |-> <<>>]
       ELSE [ok |-> TRUE, error |-> "",
             bytes |-> Bytes(Len(cleaned) - (lone \div 2))]

decode_hex_16(raw) ==
    LET cleaned == trim_start_matches_0x(trim_end(trim_start(raw)))
        decoded == hex_decode(cleaned)
    IN IF ~decoded.ok THEN decoded
       ELSE IF Len(decoded.bytes) # KeyBytes
       THEN [ok |-> FALSE, error |-> "Invalid length", bytes |-> <<>>]
       ELSE decoded

\* Variant that takes an IV that does not decode for no IV.
decode_iv_or_none(iv) ==
    IF iv = None THEN [ok |-> TRUE, error |-> "", iv |-> None]
    ELSE LET d == decode_hex_16(Get(iv))
         IN [ok |-> TRUE, error |-> "",
             iv |-> IF d.ok THEN Some(d.bytes) ELSE None]

\* The match on entry.iv in parse_key_file.
decode_iv(iv) ==
    IF iv = None THEN [ok |-> TRUE, error |-> "", iv |-> None]
    ELSE LET d == decode_hex_16(Get(iv))
         IN [ok |-> d.ok, error |-> d.error,
             iv |-> IF d.ok THEN Some(d.bytes) ELSE None]

\* The loop of parse_key_file over parsed.games in the order the HashMap
\* hands them out: the first field that does not decode ends it.
RECURSIVE decode_games(_, _, _)
decode_games(games, order, acc) ==
    IF order = <<>> THEN [ok |-> TRUE, error |-> "", games |-> acc]
    ELSE LET id == Head(order)
             key == decode_hex_16(games[id].key)
             iv == decode_iv(games[id].iv)
             k == to_uppercase(trim(id))
         IN IF ~key.ok THEN [ok |-> FALSE, error |-> key.error, games |-> <<>>]
            ELSE IF ~iv.ok THEN [ok |-> FALSE, error |-> iv.error, games |-> <<>>]
            ELSE decode_games(games, Tail(order),
                     [x \in DOMAIN acc \cup {k} |->
                         IF x = k THEN GameKeys(key.bytes, iv.iv) ELSE acc[x]])

\* parse_key_file on a whole KeyFile.
parse_key_doc(parsed, order) ==
    LET bootid_key == decode_hex_16(parsed.bootid.key)
        bootid_iv == decode_hex_16(parsed.bootid.iv)
        option_key == decode_hex_16(parsed.option.key)
        option_iv == decode_hex_16(parsed.option.iv)
        games == decode_games(parsed.games, order, <<>>)
        err(e) == [ok |-> FALSE, error |-> e, keys |-> None]
    IN IF ~bootid_key.ok THEN err(bootid_key.error)
       ELSE IF ~bootid_iv.ok THEN err(bootid_iv.error)
       ELSE IF ~option_key.ok THEN err(option_key.error)
       ELSE IF ~option_iv.ok THEN err(option_iv.error)
       ELSE IF ~games.ok THEN err(games.error)
       ELSE [ok |-> TRUE, error |-> "",
             keys |-> Some([bootid_key |-> bootid_key.bytes,
                            bootid_iv |-> bootid_iv.bytes,
                            option_key |-> option_key.bytes,
                            option_iv |-> option_iv.bytes,
                            games |-> games.games])]

\* The hex fields a document may hold: three that decode (plain, with
\* blanks and a prefix, with the prefix twice) and six that do not (a byte
\* short, a byte long, a digit short, not hex, empty, a blank after the
\* prefix).
GoodHex ==
    {Bytes(KeyBytes),
     <<" ", "0x">> \o Bytes(KeyBytes) \o <<" ">>,
     Prefixes(2) \o Bytes(KeyBytes)}
BadHex ==
    {Bytes(KeyBytes - 1),
     Bytes(KeyBytes + 1),
     Bytes(KeyBytes - 1) \o <<"a">>,
     Bytes(KeyBytes - 1) \o <<"zz">>,
     <<>>,
     <<"0x", " ">> \o Bytes(KeyBytes)}

\* A keys document whose fields all decode, and the same with one field
\* replaced.  SDEZ is the game of the input of the model; SDDT is a game no
\* input asks for.
GoodKeyFile ==
    [bootid |-> [key |-> Bytes(KeyBytes), iv |-> Bytes(KeyBytes)],
     option |-> [key |-> Bytes(KeyBytes), iv |-> Bytes(KeyBytes)],
     games |-> [id \in {"SDEZ", "SDDT"} |->
                   [key |-> Bytes(KeyBytes),
                    iv |-> IF id = "SDEZ" THEN Some(Bytes(KeyBytes)) ELSE None]]]

HexFields ==
    {"bootid.key", "bootid.iv", "option.key", "option.iv",
     "SDEZ.key", "SDEZ.iv", "SDDT.key", "SDDT.iv"}

KeyFileWith(field, raw) ==
    CASE field = "bootid.key" -> [GoodKeyFile EXCEPT !.bootid.key = raw]
      [] field = "bootid.iv"  -> [GoodKeyFile EXCEPT !.bootid.iv = raw]
      [] field = "option.key" -> [GoodKeyFile EXCEPT !.option.key = raw]
      [] field = "option.iv"  -> [GoodKeyFile EXCEPT !.option.iv = raw]
      [] field = "SDEZ.key"   -> [GoodKeyFile EXCEPT !.games["SDEZ"].key = raw]
      [] field = "SDEZ.iv"    -> [GoodKeyFile EXCEPT !.games["SDEZ"].iv = Some(raw)]
      [] field = "SDDT.key"   -> [GoodKeyFile EXCEPT !.games["SDDT"].key = raw]
      [] field = "SDDT.iv"    -> [GoodKeyFile EXCEPT !.games["SDDT"].iv = Some(raw)]

\* What a source may hold: text that is no KeyFile, or a KeyFile.
KeyText(json, doc) == [json |-> json, doc |-> doc]
NotJson == KeyText(FALSE, GoodKeyFile)
KeyTexts ==
    {NotJson} \cup
    {KeyText(TRUE, KeyFileWith(f, raw)) :
        f \in {"bootid.key", "SDDT.iv"}, raw \in GoodHex \cup BadHex} \cup
    {KeyText(TRUE, KeyFileWith(f, Bytes(KeyBytes - 1))) : f \in HexFields}

\* What the request to the key URL comes to: a transport error, a status
\* that is no success, a body that cannot be read, or a body.
UrlResponses ==
    {[fetch |-> f, text |-> NotJson] : f \in {"transport", "status", "body"}}
    \cup {[fetch |-> "ok", text |-> t] : t \in KeyTexts}

\* What fsdecrypt_keys.json is in a directory: not there, there but not
\* readable, or a text.  For the executable's directory also: no such
\* directory, when current_exe() fails.
NoKeysFile == [k |-> "absent"]
NoExeDir == [k |-> "no_exe"]
LocalFiles ==
    {NoKeysFile, [k |-> "unreadable"]} \cup
    {[k |-> "file", text |-> t] :
        t \in {NotJson, KeyText(TRUE, GoodKeyFile),
               KeyText(TRUE, KeyFileWith("SDDT.iv", Bytes(KeyBytes - 1)))}}

\* The key_url argument.
KeyUrls == {None, Some(""), Some("  "), Some(" http://keys "), Some("http://keys")}

\* serde_json::from_str and parse_key_file on a text.
parse_text(text, order, source, reads) ==
    IF ~text.json
    THEN [ok |-> FALSE, error |-> "Failed to parse keys json", keys |-> None,
          source |-> source, reads |-> reads]
    ELSE LET p == parse_key_doc(text.doc, order)
         IN [ok |-> p.ok, error |-> p.error, keys |-> p.keys,
             source |-> source, reads |-> reads]

read_keys_from_url(env, url, order) ==
    LET source == <<"url", url>>
        err(e) == [ok |-> FALSE, error |-> e, keys |-> None,
                   source |-> source, reads |-> {"url"}]
    IN CASE env.url.fetch = "transport" -> err("Failed to download keys json")
         [] env.url.fetch = "status"    -> err("Failed to download keys json")
         [] env.url.fetch = "body"      -> err("Failed to read keys json")
         [] OTHER -> parse_text(env.url.text, order, source, {"url"})

read_keys_from_file(file, order, source, reads) ==
    IF file.k = "unreadable"
    THEN [ok |-> FALSE, error |-> "Failed to read keys", keys |-> None,
          source |-> source, reads |-> reads]
    ELSE parse_text(file.text, order, source, reads)

\* resolve_local_keys_file followed by read_keys_from_file.
load_local_keys(env, order) ==
    IF env.cwd.k # "absent"
    THEN read_keys_from_file(env.cwd, order, <<"local", "cwd">>, {"cwd"})
    ELSE IF env.exe.k \notin {"absent", "no_exe"}
    THEN read_keys_from_file(env.exe, order, <<"local", "exe">>, {"cwd", "exe"})
    ELSE [ok |-> FALSE, error |-> "Key file not found", keys |-> None,
          source |-> <<"local", "none">>,
          reads |-> IF env.exe.k = "no_exe" THEN {"cwd"} ELSE {"cwd", "exe"}]

\* Variant that turns to the local files when the URL fails.
load_keys_fallback(env, order) ==
    IF env.key_url # None /\ trim(Get(env.key_url)) # ""
    THEN LET r == read_keys_from_url(env, trim(Get(env.key_url)), order)
         IN IF r.ok THEN r ELSE load_local_keys(env, order)
    ELSE load_local_keys(env, order)

load_keys(env, order) ==
    IF env.key_url # None /\ trim(Get(env.key_url)) # ""
    THEN read_keys_from_url(env, trim(Get(env.key_url)), order)
    ELSE load_local_keys(env, order)

\* The disk of a call: one APP container of game SDEZ, two pages long.
LoadDisk ==
    LET app == BootId(ContainerType_APP, FALSE, "ACA", "SDEZ", G_two)
    IN [p \in DPaths |-> IF p = DPath("in1", "app")
                         THEN Container(app, FullLen(app))
                         ELSE AbsentFile]

\* Any key URL, response and local files; nothing called yet.
InitLoad ==
    /\ files = [p \in Paths |-> IF p \in GameFiles
                                 THEN [content |-> UserBytes, mtime |-> 1]
                                 ELSE NoFile]
    /\ mem = None
    /\ disk = None
    /\ bmeta = None
    /\ bfiles = [p \in Paths |-> Absent]
    /\ now = 0
    /\ pc = "idle"
    /\ job = NoJob
    /\ result = NoResult
    /\ ext = 0
    /\ cdn = 1
    /\ snap = NoSnap
    /\ lastv = None
    /\ arg \in {[fn |-> "decrypt_game_files", key_url |-> u, url |-> r,
                 cwd |-> c, exe |-> e] :
                   u \in KeyUrls, r \in UrlResponses, c \in LocalFiles,
                   e \in (LocalFiles \ {[k |-> "unreadable"]}) \cup {NoExeDir}}
    /\ ret = NoRet
    /\ dfs = LoadDisk
    /\ run = NoRun
    /\ shadow = NoShadow

\* The orders in which the games of a text may be handed out.
OrdersOf(env) == IterationOrders(GoodKeyFile.games)

\* load_keys on its own.
LoadKeysCall ==
    /\ ret = NoRet
    /\ \E order \in OrdersOf(arg) :
         ret' = [fn |-> "load_keys", result |-> load_keys(arg, order)]
    /\ UNCHANGED <<trustVars, arg, decVars>>

\* decrypt_game_files with a progress and an on_result callback is called:
\* load_keys(key_url)?, then the sizes and the first event.  events holds
\* the current_file of every event, opened the inputs opened so far.
GameFilesBegin ==
    /\ run.pc = "idle"
    /\ \E order \in OrdersOf(arg), batch \in {<<>>, <<DPath("in1", "app")>>} :
       \E loaded \in {load_keys(arg, order)} :
         LET r0 == [pc |-> "keys_failed", files |-> batch, loaded |-> loaded,
                    opened |-> <<>>, events |-> <<>>, on_result |-> <<>>]
         IN run' = IF loaded.ok
                   THEN [r0 EXCEPT !.pc = "loop",
                                   !.opened = IF batch = <<>> THEN <<>>
                                              ELSE <<"estimate">>,
                                   !.events = <<0>>]
                   ELSE r0
    /\ UNCHANGED <<trustVars, arg, ret, dfs, shadow>>

\* One input of the call: decrypt_container with the keys loaded, the
\* top-off event and on_result.
GameFilesFile ==
    /\ run.pc = "loop"
    /\ Len(run.on_result) < Len(run.files)
    /\ \E ch \in ProgressChances :
         LET path == run.files[Len(run.on_result) + 1]
             o == decrypt_container(dfs, path, FALSE, Get(run.loaded.keys),
                                    NewEntry(to_string_lossy(path)), ch)
         IN /\ dfs' = o.fs
            /\ run' = [run EXCEPT !.opened = Append(@, "decrypt"),
                                  !.events = Append(@, Len(run.on_result) + 1),
                                  !.on_result = Append(@, record_outcome(o))]
    /\ UNCHANGED <<trustVars, arg, ret, shadow>>

\* The loop is over: the last event, and the summary is returned.
GameFilesReturn ==
    /\ run.pc = "loop"
    /\ Len(run.on_result) = Len(run.files)
    /\ run' = [run EXCEPT !.pc = "done", !.events = Append(@, Len(run.files))]
    /\ UNCHANGED <<trustVars, arg, ret, dfs, shadow>>

NextLoad ==
    \/ LoadKeysCall
    \/ GameFilesBegin
    \/ GameFilesFile
    \/ GameFilesReturn

SpecLoad == InitLoad /\ [][NextLoad]_vars

\* --------------------------------------------- clean_entry_path on its own
\* Longest name of a zip entry, in characters.
MaxName == 3

\* The names of zip entries: strings of a letter, a slash, a backslash, a
\* dot and a blank.
NameChars == {"a", "/", "\\", ".", " "}
EntryNames == UNION {[1..n -> NameChars] : n \in 0..MaxName}

\* str::replace('\\', "/").
replace_backslash(s) == [i \in DOMAIN s |-> IF s[i] = "\\" THEN "/" ELSE s[i]]

\* str::trim().is_empty().
is_blank(s) == \A i \in DOMAIN s : s[i] = " "

ends_with_slash(s) == s # <<>> /\ s[Len(s)] = "/"

\* str::contains("..").
contains_dotdot(s) == \E i \in 1..(Len(s) - 1) : s[i] = "." /\ s[i + 1] = "."

\* str::trim_start_matches('/').
RECURSIVE trim_start_slashes(_)
trim_start_slashes(s) ==
    IF s # <<>> /\ Head(s) = "/" THEN trim_start_slashes(Tail(s)) ELSE s

clean_entry_path(entry) ==
    LET normalized == replace_backslash(entry)
        trimmed == trim_start_slashes(normalized)
    IN IF is_blank(normalized) \/ ends_with_slash(normalized) THEN None
       ELSE IF contains_dotdot(normalized) THEN None
       ELSE IF trimmed = <<>> THEN None
       ELSE Some(trimmed)

\* root.join(name) of extract_artifact and backup_existing.
root_join(name) == <<"root", name>>

\* Any entry name; nothing called yet.
InitClean ==
    /\ files = [p \in Paths |-> IF p \in GameFiles
                                 THEN [content |-> UserBytes, mtime |-> 1]
                                 ELSE NoFile]
    /\ mem = None
    /\ disk = None
    /\ bmeta = None
    /\ bfiles = [p \in Paths |-> Absent]
    /\ now = 0
    /\ pc = "idle"
    /\ job = NoJob
    /\ result = NoResult
    /\ ext = 0
    /\ cdn = 1
    /\ snap = NoSnap
    /\ lastv = None
    /\ arg \in {[fn |-> "clean_entry_path", entry |-> e] : e \in EntryNames}
    /\ ret = NoRet
    /\ dfs = NoDisk
    /\ run = NoRun
    /\ shadow = NoShadow

\* clean_entry_path on the entry's name.
CallCleanEntryPath ==
    /\ ret = NoRet
    /\ ret' = [fn |-> "clean_entry_path", cleaned |-> clean_entry_path(arg.entry)]
    /\ UNCHANGED <<trustVars, arg, decVars>>

\* clean_entry_path on the name it returned.
CallCleanAgain ==
    /\ ret.fn = "clean_entry_path"
    /\ ret.cleaned # None
    /\ ret' = [fn |-> "again", cleaned |-> ret.cleaned,
               again |-> clean_entry_path(Get(ret.cleaned))]
    /\ UNCHANGED <<trustVars, arg, decVars>>

\* extract_artifact on a zip of that one entry: the files it creates.
CallExtractArtifact ==
    /\ ret = NoRet
    /\ ret' = [fn |-> "extract_artifact",
               created |-> LET name == clean_entry_path(arg.entry)
                           IN IF name = None THEN {}
                              ELSE {root_join(Get(name))}]
    /\ UNCHANGED <<trustVars, arg, decVars>>

NextClean ==
    \/ CallCleanEntryPath
    \/ CallCleanAgain
    \/ CallExtractArtifact

SpecClean == InitClean /\ [][NextClean]_vars

\* ------------------------------------------ verify beside another program
\* verify_segatoools_for_active in its two steps on the files: check_files
\* hashes them, store_status_for reads their mtimes.  Another program may
\* write between the two.

\* An install as deploy leaves it, with nothing cached.
InitRace ==
    /\ files = [p \in Paths |-> IF p \in GameFiles
                                 THEN [content |-> UserBytes, mtime |-> 1]
                                 ELSE [content |-> BuildBytes, mtime |-> 1]]
    /\ mem = None
    /\ disk = None
    /\ bmeta = None
    /\ bfiles = [p \in Paths |-> Absent]
    /\ now = 0
    /\ pc = "idle"
    /\ job = NoJob
    /\ result = NoResult
    /\ ext = 0
    /\ cdn \in 1..Len(Manifests)
    /\ snap = NoSnap
    /\ lastv = None
    /\ arg = NoArg
    /\ ret = NoRet
    /\ dfs = NoDisk
    /\ run = NoRun
    /\ shadow = NoShadow

\* verify up to and including check_files; a call that is answered from
\* the cache or fails returns here.
VerifyCheck ==
    /\ pc = "idle"
    /\ \E net \in NetInputs :
       \E v \in {verify_segatoools_for_active(files, mem, disk, bmeta, now, net, cdn)} :
            IF v.res.ok /\ ~v.res.from_cache
            THEN /\ pc' = "verify_store"
                 /\ job' = [op |-> "verify", res |-> v.res]
                 /\ result' = NoResult
                 /\ mem' = cached_status_for(files, mem, disk, now).mem
                 /\ disk' = disk
            ELSE /\ pc' = "returned"
                 /\ job' = job
                 /\ result' = v.res
                 /\ mem' = v.mem
                 /\ disk' = v.disk
    /\ snap' = NoSnap
    /\ UNCHANGED <<files, bmeta, bfiles, now, ext, cdn>>
    /\ UNCHANGED <<lastv, sideVars>>

\* store_status_for on the status of check_files, then verify returns it.
VerifyStore ==
    /\ pc = "verify_store"
    /\ LET stored == store_status_for(files, mem, disk, now, Get(job.res.status))
       IN /\ mem' = stored.mem
          /\ disk' = stored.disk
    /\ result' = job.res
    /\ pc' = "returned"
    /\ job' = NoJob
    /\ UNCHANGED <<files, bmeta, bfiles, now, ext, cdn, snap>>
    /\ UNCHANGED <<lastv, sideVars>>

\* Another program writes a file while verify is between check_files and
\* store_status_for: new bytes and an mtime the file did not have.
ExtWriteDuringVerify ==
    /\ pc = "verify_store"
    /\ ext < MaxExt
    /\ ext' = ext + 1
    /\ \E p \in Paths :
         files' = [files EXCEPT ![p] = [content |-> UserBytes,
                                        mtime |-> files[p].mtime + 1]]
    /\ UNCHANGED <<result, mem, disk, bmeta, bfiles, now, pc, job, cdn, snap>>
    /\ UNCHANGED <<lastv, sideVars>>

NextRace ==
    \/ VerifyCheck
    \/ VerifyStore
    \/ ExtWriteDuringVerify
    \/ Return
    \/ ExtWrite
    \/ ExtTouch
    \/ ExtRemove

SpecRace == InitRace /\ [][NextRace]_vars

\* --------------------------------------------------------------- crypto
\* src/src-tauri/src/fsdecrypt/crypto.rs.  A byte is 0..255, a block or IV
\* a sequence of 16 bytes, a u64 offset four 16-bit limbs, least
\* significant first.

\* u8 ^ u8, bit by bit.
RECURSIVE bit_xor(_, _)
bit_xor(a, b) ==
    IF a = 0 THEN b
    ELSE IF b = 0 THEN a
    ELSE ((a + b) % 2) + 2 * bit_xor(a \div 2, b \div 2)

\* (file_offset >> shift) as u8, for a shift that is a multiple of 8.
shr_as_u8(file_offset, shift) ==
    (file_offset[(shift \div 16) + 1] \div (2 ^ (shift % 16))) % 256

Zero16 == [i \in 1..16 |-> 0]

NTFS_HEADER == <<235, 82, 144, 78, 84, 70, 83, 32, 32, 32, 32, 0, 16, 1, 0, 0>>
EXFAT_HEADER == <<235, 118, 144, 69, 88, 70, 65, 84, 32, 32, 32, 0, 0, 0, 0, 0>>

\* Variant that tweaks the low eight bytes only.
calculate_page_iv_low_half(file_offset, file_iv, page_iv) ==
    [n \in 1..Len(page_iv) |->
        IF n > Len(file_iv) THEN page_iv[n]
        ELSE IF n > 8 THEN file_iv[n]
        ELSE bit_xor(file_iv[n], shr_as_u8(file_offset, 8 * (n - 1)))]

\* calculate_page_iv: the page IV it leaves in page_iv.  The loop runs over
\* the zip of the two slices; byte i (from 0) is position i + 1 here.
calculate_page_iv(file_offset, file_iv, page_iv) ==
    [n \in 1..Len(page_iv) |->
        IF n > Len(file_iv) THEN page_iv[n]
        ELSE bit_xor(file_iv[n], shr_as_u8(file_offset, 8 * ((n - 1) % 8)))]

\* The block cipher: a keyed permutation of the 16-byte blocks stands for
\* AES-128.  Each byte of the rotated block is whitened with a key byte and
\* mapped through an affine permutation of the bytes.
aes128_encrypt_block(key, block) ==
    [n \in 1..16 |-> (5 * bit_xor(block[(n % 16) + 1], key[n]) + 7) % 256]

aes128_decrypt_block(key, block) ==
    [n \in 1..16 |->
        LET m == ((n + 14) % 16) + 1
        IN bit_xor((205 * ((block[m] + 249) % 256)) % 256, key[m])]

xor_block(a, b) == [n \in 1..16 |-> bit_xor(a[n], b[n])]

\* CBC encryption of one block, as the container's producer does it.
cbc_encrypt_first_block(key, iv, plain) ==
    aes128_encrypt_block(key, xor_block(plain, iv))

\* Aes128CbcDec::new_from_slices(key, iv).decrypt_padded_mut::<NoPadding>
\* on one block.
cbc_decrypt_first_block(key, iv, block) ==
    xor_block(aes128_decrypt_block(key, block), iv)

\* Variant that decrypts with a zero IV instead of the expected header.
calculate_file_iv_zero_iv(key, expected_header, first_page) ==
    IF Len(first_page) < 16 THEN [kind |-> "panic", iv |-> None]
    ELSE [kind |-> "ok",
          iv |-> Some(cbc_decrypt_first_block(key, Zero16, SubSeq(first_page, 1, 16)))]

\* calculate_file_iv: Ok(the file IV), or the panic of first_page[..16] on a
\* page shorter than a block.
calculate_file_iv(key, expected_header, first_page) ==
    IF Len(first_page) < 16 THEN [kind |-> "panic", iv |-> None]
    ELSE LET header == SubSeq(first_page, 1, 16)
             iv == calculate_page_iv(<<0, 0, 0, 0>>, expected_header, Zero16)
         IN [kind |-> "ok", iv |-> Some(cbc_decrypt_first_block(key, iv, header))]

\* File IVs, keys and offsets of the calls.
Blocks ==
    {Zero16, [n \in 1..16 |-> 255], [n \in 1..16 |-> n], [n \in 1..16 |-> 16 * n - 1],
     [n \in 1..16 |-> IF n <= 8 THEN 170 ELSE 85], NTFS_HEADER, EXFAT_HEADER,
     [n \in 1..16 |-> (37 * n) % 256]}

Offsets ==
    {<<0, 0, 0, 0>>, <<PAGE_SIZE, 0, 0, 0>>, <<2 * PAGE_SIZE, 0, 0, 0>>,
     <<61440, 65535, 0, 0>>, <<0, 0, 1, 0>>, <<PAGE_SIZE, 513, 1027, 1541>>,
     <<1800, 1286, 772, 258>>, <<61440, 65535, 65535, 65535>>}

\* The calls: calculate_page_iv on any file IV and offset, and
\* calculate_file_iv on the first page of a container a producer encrypted
\* with file IV v under the key, with or without more bytes after the
\* first block, or on a page cut short.
CryptoCalls ==
    {[fn |-> "calculate_page_iv", file_offset |-> o, file_iv |-> v] :
         o \in Offsets, v \in Blocks}
    \cup
    {[fn |-> "calculate_file_iv", key |-> k, expected_header |-> h, file_iv |-> v,
      first_page |-> cbc_encrypt_first_block(
                         k, calculate_page_iv(<<0, 0, 0, 0>>, v, Zero16), h) \o tail] :
         k \in {Zero16, [n \in 1..16 |-> n], [n \in 1..16 |-> (37 * n) % 256]},
         h \in {NTFS_HEADER, EXFAT_HEADER}, v \in Blocks,
         tail \in {<<>>, <<1, 2, 3>>}}
    \cup
    {[fn |-> "calculate_file_iv", key |-> Zero16, expected_header |-> NTFS_HEADER,
      file_iv |-> Zero16, first_page |-> <<1, 2, 3>>]}

InitCrypto ==
    /\ files = [p \in Paths |-> IF p \in GameFiles
                                 THEN [content |-> UserBytes, mtime |-> 1]
                                 ELSE NoFile]
    /\ mem = None
    /\ disk = None
    /\ bmeta = None
    /\ bfiles = [p \in Paths |-> Absent]
    /\ now = 0
    /\ pc = "idle"
    /\ job = NoJob
    /\ result = NoResult
    /\ ext = 0
    /\ cdn = 1
    /\ snap = NoSnap
    /\ lastv = None
    /\ arg \in CryptoCalls
    /\ ret = NoRet
    /\ dfs = NoDisk
    /\ run = NoRun
    /\ shadow = NoShadow

CallPageIv ==
    /\ arg.fn = "calculate_page_iv"
    /\ ret = NoRet
    /\ ret' = [fn |-> "calculate_page_iv",
               page_iv |-> calculate_page_iv(arg.file_offset, arg.file_iv, Zero16)]
    /\ UNCHANGED <<trustVars, arg, decVars>>

CallFileIv ==
    /\ arg.fn = "calculate_file_iv"
    /\ ret = NoRet
    /\ ret' = [fn |-> "calculate_file_iv",
               out |-> calculate_file_iv(arg.key, arg.expected_header, arg.first_page)]
    /\ UNCHANGED <<trustVars, arg, decVars>>

NextCrypto ==
    \/ CallPageIv
    \/ CallFileIv

SpecCrypto == InitCrypto /\ [][NextCrypto]_vars

C2_InvalidationOnMtimeChange ==
    [][ LET diverged(c) ==
                \E i \in 1..Len(Get(c).status.checked_files) :
                    LET rel == Get(c).status.checked_files[i].path
                    IN \/ files[rel].content = Absent
                       \/ files[rel].mtime # Get(c).mtimes[rel]
        IN ( /\ pc = "idle"
             /\ pc' = "returned"
             /\ result'.op = "verify"
             /\ IsSome(mem) \/ IsSome(disk)
             /\ IsSome(mem) => diverged(mem)
             /\ IsSome(disk) => diverged(disk) )
           => /\ ~result'.from_cache
              /\ result'.net.manifest_req
              /\ result'.ok =>
                   LET st == Get(result'.status)
                   IN /\ st.checked_at = now
                      /\ \A i \in 1..Len(st.checked_files) :
                           st.checked_files[i] =
                             FileCheckResult(files,
                                 [path |-> st.checked_files[i].path,
                                  sha256 |-> st.checked_files[i].expected_sha256])
      ]_vars

\* A verify that found an entry in the cache, was not served from it and
\* computed a trusted status again: a checked file was touched.
C2_Witness ==
    /\ pc = "returned"
    /\ result.op = "verify"
    /\ result.ok
    /\ result.had_entry
    /\ ~result.from_cache
    /\ Get(result.status).trusted

\* C3: verify never returns a status from the cache more than 300 s after
\* the file check that computed it.
C3_CacheWithinTtl ==
    (pc = "returned" /\ result.op = "verify" /\ result.ok /\ result.from_cache)
        => now - Get(result.status).checked_at <= from_secs(TRUST_CACHE_TTL_SECS)

\* C4: signature enforcement.  A verify or deploy call that got no .minisig,
\* a truncated one or one made with another key returns an error at once:
\* it has not parsed the manifest, has requested no artifact, and the files
\* under the root, the backup directory and both cache tiers are as before.
C4_SignatureEnforced ==
    [][ ( /\ pc # "returned"
          /\ pc' = "returned"
          /\ result'.op \in {"verify", "deploy"}
          /\ result'.net.sig_seen \in {"missing", "truncated", "wrongkey"} )
        => /\ pc = "idle"
           /\ ~result'.ok
           /\ ~result'.net.parsed
           /\ ~result'.net.artifact_req
           /\ UNCHANGED <<files, bmeta, bfiles, mem, disk>>
      ]_vars

\* A deploy over existing files failed on a manifest signed by another key.
C4_Witness ==
    /\ pc = "returned"
    /\ result.op = "deploy"
    /\ result.net.sig_seen = "wrongkey"
    /\ ~result.ok
    /\ exists(files, "a.dll")

\* C5: artifact hash enforcement.  A verify or deploy call that downloaded a
\* body whose SHA-256 differs from the non-empty sha256 the manifest gives
\* for the selected artifact returns the error "Artifact sha mismatch"; a
\* deploy does so at once, with the files under the root, the backup directory and both
\* cache tiers as before.
C5_ArtifactHashEnforced ==
    [][ ( /\ pc # "returned"
          /\ pc' = "returned"
          /\ result'.op \in {"verify", "deploy"}
          /\ result'.net.artifact_req
          /\ IsSome(result'.net.body_seen)
          /\ LET artifact == Get(select_artifact(Manifests[cdn], ActiveGameName))
             IN /\ artifact.sha256 # EmptyStr
                /\ sha256_reader(Get(result'.net.body_seen)) # artifact.sha256 )
        => /\ ~result'.ok
           /\ result'.err = TrustedError("Verification", "Artifact sha mismatch")
           /\ result'.op = "deploy" =>
                /\ pc = "idle"
                /\ UNCHANGED <<files, bmeta, bfiles, mem, disk>>
      ]_vars

\* A deploy over existing files failed on a tampered body.
C5_Witness ==
    /\ pc = "returned"
    /\ result.op = "deploy"
    /\ result.err = TrustedError("Verification", "Artifact sha mismatch")
    /\ result.net.body_seen = Some("zipX")
    /\ exists(files, "a.dll")

\* C6: deploy without force over existing files is a pure probe.  Deploy
\* goes on to backup or extraction only with force or when no zip entry
\* exists under the root; otherwise, once the artifact is downloaded, it
\* returns deployed = false, needs_confirmation = true and existing_files =
\* the zip entries that exist, in zip order, and the files under the root,
\* the backup directory and both cache tiers are as before.
C6_ProbeWithoutForce ==
    [][ /\ ( pc = "idle" /\ pc' \in {"backup_clear", "extract"} )
           => \/ job'.force
              \/ \A i \in 1..Len(job'.entries) :
                    files[job'.entries[i]].content = Absent
        /\ ( pc = "idle" /\ pc' = "returned" /\ result'.op = "deploy" /\ result'.ok )
           => LET entries == collect_zip_entries(Get(result'.body))
                  there(rel) == files[rel].content # Absent
              IN /\ ~result'.force
                 /\ ~result'.deployed
                 /\ result'.needs_confirmation
                 /\ result'.existing_files # <<>>
                 /\ result'.existing_files = SelectSeq(entries, there)
                 /\ UNCHANGED <<files, bmeta, bfiles, mem, disk>>
      ]_vars

\* A probe that found one of the two zip entries, with a cache entry on
\* disk.
C6_Witness ==
    /\ pc = "returned"
    /\ result.op = "deploy"
    /\ result.needs_confirmation
    /\ Len(result.existing_files) = 1
    /\ IsSome(disk)

\* C7: deploy backs up exactly the overwritten set.  When a forced deploy
\* over existing zip entries has returned deployed = true, metadata.json
\* lists as backed_up_files the zip entries that existed before the deploy
\* and as new_files those that did not (both in zip order), and
\* Segatools_Backup/files holds the pre-deploy bytes of each backed-up entry.
C7_BackupIsOverwrittenSet ==
    ( /\ pc = "returned"
      /\ result.op = "deploy"
      /\ result.deployed
      /\ snap.phase = "deployed"
      /\ snap.forced_over )
    => LET entries == collect_zip_entries(Get(result.body))
           was(rel) == snap.contents[rel] # Absent
           wasNot(rel) == snap.contents[rel] = Absent
       IN /\ result.force
          /\ result.backup_dir
          /\ IsSome(bmeta)
          /\ Get(bmeta).backed_up_files = SelectSeq(entries, was)
          /\ Get(bmeta).new_files = SelectSeq(entries, wasNot)
          /\ \A i \in 1..Len(Get(bmeta).backed_up_files) :
                bfiles[Get(bmeta).backed_up_files[i]]
                    = snap.contents[Get(bmeta).backed_up_files[i]]

\* A forced deploy returned that overwrote one entry and created another.
C7_Witness ==
    /\ pc = "returned"
    /\ result.op = "deploy"
    /\ result.deployed
    /\ snap.phase = "deployed"
    /\ snap.forced_over
    /\ Len(Get(bmeta).backed_up_files) = 1
    /\ Len(Get(bmeta).new_files) = 1

C9_IntactOrBackup ==
    LET InSeq(q, x) == \E i \in 1..Len(q) : q[i] = x
        intact == \A p \in Paths :
                     snap.contents[p] # Absent => files[p].content = snap.contents[p]
        back == [p \in Paths |->
                    IF InSeq(Get(bmeta).new_files, p) THEN Absent
                    ELSE IF InSeq(Get(bmeta).backed_up_files, p) THEN bfiles[p]
                    ELSE files[p].content]
        canReturn ==
            /\ IsSome(bmeta)
            /\ \A p \in Paths :
                 InSeq(Get(bmeta).backed_up_files, p) => bfiles[p] # Absent
            /\ back = snap.contents
    IN snap.phase \in {"deploying", "failed", "deployed"}
       => /\ intact \/ canReturn
          /\ pc \in {"backup_clear", "backup_copy"}
               => ContentsOf(files) = snap.contents
          /\ (pc = "extract" /\ job.existing # <<>>) => canReturn

\* A deploy failed inside extraction after it had truncated a file that
\* existed.
C9_Witness ==
    /\ pc = "returned"
    /\ snap.phase = "failed"
    /\ \E p \in Paths : /\ files[p].content = PartialBytes
                        /\ snap.contents[p] = UserBytes

C11_CheckFilesDerivation ==
    ret.fn = "check_files" =>
        LET st == ret.status
            list == arg.files
            there(f) == files[f.path].content # Absent
            same(f) == /\ files[f.path].content \notin {Absent, UnreadableBytes}
                       /\ sha256_reader(files[f.path].content) = f.sha256
        IN /\ st.trusted = (list # <<>> /\ \A i \in 1..Len(list) : same(list[i]))
           /\ st.missing_files = (\E i \in 1..Len(list) : ~there(list[i]))
           /\ Len(st.checked_files) = Len(list)
           /\ \A i \in 1..Len(list) :
                /\ st.checked_files[i].path = list[i].path
                /\ st.checked_files[i].exists = there(list[i])
                /\ st.checked_files[i].matches = same(list[i])
                /\ ~st.checked_files[i].exists => ~st.checked_files[i].matches
           /\ st.trusted => ~st.missing_files
           /\ (st.reason = None) = st.trusted

\* check_files returned trusted for a list of two entries.
C11_Witness ==
    /\ ret.fn = "check_files"
    /\ ret.status.trusted
    /\ Len(arg.files) = 2
    /\ arg.files[1].path # arg.files[2].path

\* C12: a verify called within 300 s of the verify that computed a trusted
\* status, with no checked file changed and no deploy or rollback since,
\* returns that same status and makes no manifest, signature or artifact
\* request.
C12_SecondVerifyFromCache ==
    [][ ( /\ pc = "idle"
          /\ pc' = "returned"
          /\ result'.op = "verify"
          /\ IsSome(lastv)
          /\ now - Get(lastv).checked_at <= from_secs(TRUST_CACHE_TTL_SECS) )
        => /\ result'.ok
           /\ result'.from_cache
           /\ result'.status = lastv
           /\ result'.net = NoNet
      ]_vars

\* C13: a verify or deploy that fails (network error, invalid signature,
\* artifact hash mismatch, zip error, no matching artifact) returns a trust
\* status whose trusted is false and whose reason is a non-empty message.
C13_FailureYieldsUntrustedStatus ==
    (pc = "returned" /\ result.op \in {"verify", "deploy"} /\ ~result.ok) =>
        LET st == IF result.op = "verify" THEN result.status
                  ELSE result.verification
        IN /\ IsSome(st)
           /\ ~Get(st).trusted
           /\ IsSome(Get(st).reason)
           /\ Get(Get(st).reason) # EmptyStr

\* C14: when the key material loads, the summary decrypt_game_files returns
\* has one result per input path, in input order, with that path as its
\* input; a result is failed exactly when it has an error, and a failed
\* result has no output and is not extracted.
C14_OneResultPerInput ==
    run.pc \in {"loop", "done"} =>
        /\ Len(run.results) <= Len(run.files)
        /\ run.pc = "done" => Len(run.results) = Len(run.files)
        /\ \A i \in 1..Len(run.results) :
             LET r == run.results[i]
             IN /\ r.input = run.files[i]
                /\ r.failed = IsSome(r.error)
                /\ r.failed => (r.output = None /\ ~r.extracted)

\* A returned summary of two different inputs, the first failed after a
\* panic, the second extracted.
C14_Witness ==
    /\ run.pc = "done"
    /\ Len(run.results) = 2
    /\ run.files[1] # run.files[2]
    /\ run.results[1].failed
    /\ Get(run.results[1].error).panic
    /\ ~run.results[2].failed
    /\ run.results[2].extracted

\* C15: an I/O error, crypto error or panic while an input is processed
\* becomes that input's error with failed set, and the call goes on: every
\* later input is processed and gets the result it would get had the
\* failed inputs not been in the batch.
C15_ErrorIsolation ==
    run.pc \in {"loop", "done"} =>
        /\ \A i \in 1..Len(run.results) :
             run.outcomes[i] # "ok" =>
                 /\ run.results[i].failed
                 /\ IsSome(run.results[i].error)
                 /\ Get(run.results[i].error).panic = (run.outcomes[i] = "panic")
        /\ run.pc = "done" => Len(run.results) = Len(run.files)
        /\ run.results = shadow.results

\* The first input failed after it had created its output file, and the
\* second input, a different path, was then decrypted.
C15_Witness ==
    /\ run.pc = "done"
    /\ Len(run.results) = 2
    /\ run.files[1] # run.files[2]
    /\ run.results[1].failed
    /\ run.traces[1].created
    /\ dfs # shadow.fs
    /\ ~run.results[2].failed
    /\ IsSome(run.results[2].output)

\* C16: a container whose decoded container_type is not OS (0), APP (1)
\* or OPTION (2) gets a per-file error and nothing else: no key is looked
\* up, no output file is created or sized, the disk is as before, and the
\* result is failed with no output.
C16_UnknownTypeNoOutput ==
    run.pc \in {"loop", "done"} =>
        \A i \in 1..Len(run.results) :
            LET file == run.before[i][run.files[i]]
                after == IF i < Len(run.results) THEN run.before[i + 1] ELSE dfs
                r == run.results[i]
            IN ( /\ file.k = "enc"
                 /\ file.len >= BootIdSize
                 /\ file.hdr.container_type \notin
                        {ContainerType_OS, ContainerType_APP, ContainerType_OPTION} )
               => /\ r.failed
                  /\ r.error = Some([panic |-> FALSE, msg |-> "Unknown container type"])
                  /\ r.output = None
                  /\ ~r.extracted
                  /\ r.container_type = None
                  /\ run.traces[i] = NoTrace
                  /\ after = run.before[i]

\* A container of type 9 was processed after an input that left a file on
\* the disk.
C16_Witness ==
    /\ run.pc = "done"
    /\ Len(run.results) = 2
    /\ run.before[2] # run.before[1]
    /\ run.before[2][run.files[2]].k = "enc"
    /\ run.before[2][run.files[2]].len >= BootIdSize
    /\ run.before[2][run.files[2]].hdr.container_type = 9
    /\ run.results[2].failed

\* C17: whenever decrypt_container succeeds, the decrypted file is exactly
\* (block_count - header_block_count) * block_size bytes long and the
\* pages were read from input offset header_block_count * block_size on.
C17_OutputSizeLaw ==
    run.pc \in {"loop", "done"} =>
        \A i \in 1..Len(run.results) :
            run.outcomes[i] = "ok" =>
                LET bootid == run.before[i][run.files[i]].hdr
                    t == run.traces[i]
                IN /\ t.out_len = Some((bootid.block_count - bootid.header_block_count)
                                           * bootid.block_size)
                   /\ t.data_offset = Some(bootid.header_block_count * bootid.block_size)
                   /\ IsSome(t.first_page_at) => t.first_page_at = t.data_offset

C18_IvTweakSymmetry ==
    ret.fn = "calculate_page_iv" =>
        LET o == arg.file_offset
            \* byte k (0..7) of the little-endian offset
            byte(k) == IF k % 2 = 0 THEN o[(k \div 2) + 1] % 256
                       ELSE o[(k \div 2) + 1] \div 256
            bit(x, b) == (x \div (2 ^ b)) % 2
            is_xor(z, x, y) == \A b \in 0..7 : bit(z, b) = (bit(x, b) + bit(y, b)) % 2
            tweak(i) == CHOOSE t \in 0..255 : is_xor(t, ret.page_iv[i + 1], arg.file_iv[i + 1])
        IN /\ Len(ret.page_iv) = 16
           /\ \A i \in 0..15 :
                /\ is_xor(ret.page_iv[i + 1], arg.file_iv[i + 1], byte(i % 8))
                /\ is_xor(arg.file_iv[i + 1], ret.page_iv[i + 1], byte(i % 8))
           /\ \A i \in 0..7 : tweak(i + 8) = tweak(i)
           /\ o = <<0, 0, 0, 0>> => ret.page_iv = arg.file_iv

\* calculate_page_iv was applied to an offset whose eight bytes all differ
\* and are not zero, and changed every byte of the file IV.
C18_Witness ==
    /\ ret.fn = "calculate_page_iv"
    /\ arg.file_offset = <<1800, 1286, 772, 258>>
    /\ \A n \in 1..16 : ret.page_iv[n] # arg.file_iv[n]

\* C19: when the first ciphertext block of page 0 is the CBC encryption
\* under key K of a plaintext block equal to the header H with the IV
\* calculate_page_iv(0, V), calculate_file_iv(K, H, page) returns V.
C19_FileIvRoundTrip ==
    ( /\ ret.fn = "calculate_file_iv"
      /\ Len(arg.first_page) >= 16
      /\ SubSeq(arg.first_page, 1, 16) =
             cbc_encrypt_first_block(
                 arg.key, calculate_page_iv(<<0, 0, 0, 0>>, arg.file_iv, Zero16),
                 arg.expected_header) )
    => /\ ret.out.kind = "ok"
       /\ ret.out.iv = Some(arg.file_iv)

\* calculate_file_iv recovered a file IV other than zero under a key other
\* than zero from a page that goes on after its first block.
C19_Witness ==
    /\ ret.fn = "calculate_file_iv"
    /\ ret.out.kind = "ok"
    /\ ret.out.iv = Some(arg.file_iv)
    /\ arg.file_iv # Zero16
    /\ arg.key # Zero16
    /\ Len(arg.first_page) > 16

\* The key material the key file holds for a header id: the id without
\* padding, in upper case.
KeyIdOf(raw) == IF raw = "sdx " THEN "SDX" ELSE raw

\* C25: the configured IV is used exactly when use_custom_iv is false and
\* the selected key material has an IV; otherwise the IV is recovered by
\* calculate_file_iv from the page read at data_offset, with the exFAT
\* header for OPTION containers and the NTFS header for OS and APP.
C25_FileIvDetermination ==
    run.pc \in {"loop", "done"} =>
        \A i \in 1..Len(run.results) :
            LET t == run.traces[i]
                bootid == run.before[i][run.files[i]].hdr
                gk == IF bootid.container_type = ContainerType_OPTION
                      THEN GameKeys(FsDecryptKeys.option_key,
                                    Some(FsDecryptKeys.option_iv))
                      ELSE IF bootid.container_type = ContainerType_OS
                      THEN FsDecryptKeys.games[KeyIdOf(bootid.os_id)]
                      ELSE FsDecryptKeys.games[KeyIdOf(bootid.game_id)]
            IN (t.created \/ run.outcomes[i] = "ok" \/ t.iv.from # "none") =>
                  IF ~bootid.use_custom_iv /\ IsSome(gk.iv)
                  THEN t.iv = [from |-> "configured", value |-> gk.iv,
                               header |-> None, page_at |-> None]
                  ELSE t.iv = [from |-> "calculate_file_iv", value |-> None,
                               header |-> Some(IF bootid.container_type = ContainerType_OPTION
                                               THEN "EXFAT_HEADER" ELSE "NTFS_HEADER"),
                               page_at |-> t.data_offset]

\* An OPTION container whose header asks for a recovered IV was decrypted
\* after an APP container that used the configured one.
C25_Witness ==
    /\ run.pc = "done"
    /\ Len(run.results) = 2
    /\ run.outcomes = <<"ok", "ok">>
    /\ run.traces[1].iv.from = "configured"
    /\ run.before[2][run.files[2]].hdr.container_type = ContainerType_OPTION
    /\ run.before[2][run.files[2]].hdr.use_custom_iv
    /\ run.traces[2].iv.header = Some("EXFAT_HEADER")

\* C26: an OS container is decrypted with the key of os_id, an APP
\* container with the key of game_id, an OPTION container with the option
\* key and IV; the id is looked up without its padding and in any case;
\* an OS or APP container whose id has no entry fails with "Key not found"
\* and the disk is left as it was.
C26_KeySelection ==
    run.pc \in {"loop", "done"} =>
        \A i \in 1..Len(run.results) :
            LET file == run.before[i][run.files[i]]
                after == IF i < Len(run.results) THEN run.before[i + 1] ELSE dfs
                t == run.traces[i]
                r == run.results[i]
                bootid == file.hdr
                id == IF bootid.container_type = ContainerType_OS
                      THEN bootid.os_id ELSE bootid.game_id
                not_found == Some([panic |-> FALSE, msg |-> "Key not found"])
            IN ( /\ file.k = "enc"
                 /\ file.len >= BootIdSize
                 /\ bootid.container_type \in
                        {ContainerType_OS, ContainerType_APP, ContainerType_OPTION}
                 /\ bootid.os_id # InvalidId
                 /\ bootid.game_id # InvalidId )
               => IF bootid.container_type = ContainerType_OPTION
                  THEN /\ r.error # not_found
                       /\ t.created =>
                            /\ t.key = Some(FsDecryptKeys.option_key)
                            /\ ~bootid.use_custom_iv =>
                                   t.iv.value = Some(FsDecryptKeys.option_iv)
                  ELSE IF KeyIdOf(id) \in DOMAIN FsDecryptKeys.games
                  THEN /\ r.error # not_found
                       /\ t.created =>
                              t.key = Some(FsDecryptKeys.games[KeyIdOf(id)].key)
                  ELSE /\ r.failed
                       /\ r.error = not_found
                       /\ r.output = None
                       /\ ~t.created
                       /\ after = run.before[i]

\* An APP container whose game id is lower case and padded was decrypted
\* with that game's key, and after it an OPTION container with the option
\* key.
C26_Witness ==
    /\ run.pc = "done"
    /\ Len(run.results) = 2
    /\ run.outcomes = <<"ok", "ok">>
    /\ run.before[1][run.files[1]].hdr.container_type = ContainerType_APP
    /\ run.before[1][run.files[1]].hdr.game_id = "sdx "
    /\ run.traces[1].key = Some("key:SDX")
    /\ run.before[2][run.files[2]].hdr.container_type = ContainerType_OPTION
    /\ run.traces[2].key = Some("key:option")

\* C27: the k-th iteration of the page loop, for every page the input
\* holds in full, reads input bytes [data_offset + 4096(k-1), data_offset
\* + 4096k), derives the page IV from offset 4096(k-1) and writes output
\* bytes [4096(k-1), 4096k), whatever the header size and whether the
\* file IV was configured or recovered from the first page.
C27_PagesInOrder ==
    run.pc \in {"loop", "done"} =>
        \A i \in 1..Len(run.results) :
            LET t == run.traces[i]
                len == run.before[i][run.files[i]].len
            IN /\ \A k \in 1..Len(t.pages) :
                    len >= Get(t.data_offset) + PAGE_SIZE * k =>
                        t.pages[k] = [file_offset |-> PAGE_SIZE * (k - 1),
                                      read_at |-> Get(t.data_offset) + PAGE_SIZE * (k - 1),
                                      bytes |-> PAGE_SIZE,
                                      write_at |-> PAGE_SIZE * (k - 1)]
               /\ t.flushed => Len(t.pages) = Get(t.out_len) \div PAGE_SIZE

\* A container of two pages behind a header of one block was decrypted
\* with an IV recovered from its first page.
C27_Witness ==
    /\ run.pc = "done"
    /\ Len(run.results) >= 1
    /\ run.outcomes[1] = "ok"
    /\ run.traces[1].iv.from = "calculate_file_iv"
    /\ run.traces[1].data_offset = Some(PAGE_SIZE)
    /\ Len(run.traces[1].pages) = 2
    /\ run.traces[1].pages[2].bytes = PAGE_SIZE

\* C28: a container whose (block_count - header_block_count) * block_size
\* is zero or negative or not a multiple of 4096 gets a per-file error and
\* is not reported as decrypted.
C28_OutputSizeValidated ==
    run.pc \in {"loop", "done"} =>
        \A i \in 1..Len(run.results) :
            LET file == run.before[i][run.files[i]]
                size == (file.hdr.block_count - file.hdr.header_block_count)
                            * file.hdr.block_size
            IN (file.k = "enc" /\ file.len >= BootIdSize
                    /\ (size <= 0 \/ size % PAGE_SIZE # 0))
               => run.results[i].failed /\ run.outcomes[i] # "ok"

\* The candidate names of a game name, spelling by spelling.
CandidatesOf(name) ==
    IF name \in {" Chunithm", "CHUNITHM", "chunithm"} THEN <<"chusan.zip", "chuni.zip">>
    ELSE IF name \in {"sinmai", " SDEZ 1.50", "sdez"} THEN <<"mai2.zip">>
    ELSE IF name \in {"Ongeki ", "ongeki"} THEN <<"mu3.zip">>
    ELSE <<>>

\* The spellings of an artifact name.
SpellingsOf(candidate) ==
    IF candidate = "chusan.zip" THEN {"chusan.zip", "CHUSAN.ZIP"}
    ELSE IF candidate = "mai2.zip" THEN {"mai2.zip", "Mai2.zip"}
    ELSE IF candidate = "mu3.zip" THEN {"mu3.zip", "MU3.ZIP"}
    ELSE {candidate}

\* The manifests with the same artifacts as m in another order.
Reordered(m) ==
    {[m EXCEPT !.artifacts = q] :
        q \in {r \in [DOMAIN m.artifacts -> {m.artifacts[i] : i \in DOMAIN m.artifacts}] :
                  \A i, j \in DOMAIN r : i # j => r[i] # r[j]}}

\* The artifacts of m named as the first candidate that any artifact of m
\* in pool is named as.
FirstCandidateHits(m, name, pool) ==
    LET cands == CandidatesOf(name)
        has(k) == \E a \in pool : a.name \in SpellingsOf(cands[k])
        ks == {k \in DOMAIN cands : has(k)}
    IN IF ks = {} THEN {}
       ELSE LET k == CHOOSE x \in ks : \A y \in ks : x <= y
            IN {a \in pool : a.name \in SpellingsOf(cands[k])}

\* C22 as stated: the result is the manifest's artifact named as the first
\* candidate the manifest has, NotFound when it has none, and it is the
\* same for every order of the manifest's artifacts.
C22_ArtifactSelection ==
    ret.fn = "select_artifact" =>
        LET m == arg.manifest
            all == {m.artifacts[i] : i \in DOMAIN m.artifacts}
            hits == FirstCandidateHits(m, arg.name, all)
        IN /\ hits = {} <=> ret.artifact = None
           /\ hits # {} => \E a \in hits : ret.artifact = Some(a)
           /\ \A m2 \in Reordered(m) :
                  select_artifact(m2, arg.name) = ret.artifact

\* C22, amended: only artifacts of kind component are considered; the
\* result is the first artifact in manifest order named as the first
\* candidate that has one, NotFound when there is none; it is the same for
\* every order of the artifacts when no two component artifacts are named
\* alike up to case.
C22_ComponentArtifactSelection ==
    ret.fn = "select_artifact" =>
        LET m == arg.manifest
            comps == {m.artifacts[i] : i \in {j \in DOMAIN m.artifacts :
                                                 m.artifacts[j].kind = "component"}}
            hits == FirstCandidateHits(m, arg.name, comps)
            idx == {i \in DOMAIN m.artifacts : m.artifacts[i] \in hits}
        IN /\ hits = {} <=> ret.artifact = None
           /\ hits # {} =>
                  ret.artifact = Some(m.artifacts[CHOOSE i \in idx : \A j \in idx : i <= j])
           /\ Cardinality(hits) <= 1 =>
                  \A m2 \in Reordered(m) :
                      select_artifact(m2, arg.name) = ret.artifact

\* For a game spelled " Chunithm" and a manifest that lists chuni.zip
\* before CHUSAN.ZIP, CHUSAN.ZIP was selected.
C22_Witness ==
    /\ ret.fn = "select_artifact"
    /\ arg.name = " Chunithm"
    /\ Len(arg.manifest.artifacts) = 3
    /\ arg.manifest.artifacts[1].name = "chuni.zip"
    /\ arg.manifest.artifacts[3].name = "CHUSAN.ZIP"
    /\ ret.artifact = Some(arg.manifest.artifacts[3])

\* The game ID a raw id of the document stands for.
GameIdOf(raw) == IF raw \in {"SDEZ", "sdez "} THEN "SDEZ" ELSE raw

\* C23: of the entries of the games object whose ids normalize to the same
\* game ID, the one last in the document is kept, and every load of the
\* document gives the same key and IV for every game ID.
C23_LastDuplicateWins ==
    ret.fn = "load_keys" =>
        /\ \A n \in DOMAIN ret.loads :
              LET games == ret.loads[n]
              IN /\ DOMAIN games = {GameIdOf(arg.doc[i].id) : i \in DOMAIN arg.doc}
                 /\ \A g \in DOMAIN games :
                       LET at == {i \in DOMAIN arg.doc : GameIdOf(arg.doc[i].id) = g}
                       IN games[g] = arg.doc[CHOOSE i \in at : \A j \in at : j <= i].entry
        /\ \A n1, n2 \in DOMAIN ret.loads : ret.loads[n1] = ret.loads[n2]

\* C24: after a deploy that changed a file under the root, neither cache
\* tier holds a status from before the deploy: after a deploy that failed
\* part-way both tiers are empty, and after deployed = true both hold the
\* post-deploy verification if it is trusted and are empty otherwise.
C24_DeployInvalidatesCache ==
    /\ (snap.phase = "failed" /\ ContentsOf(files) # snap.contents)
           => mem = None /\ disk = None
    /\ (snap.phase = "deployed" /\ pc = "returned")
           => LET v == Get(result.verification)
              IN IF v.trusted /\ ~v.missing_files
                 THEN /\ IsSome(mem) /\ Get(mem).status = v
                      /\ IsSome(disk) /\ Get(disk).status = v
                 ELSE mem = None /\ disk = None

\* C21: every progress event has total >= 1, processed <= total, a
\* percent between 0 and 100, and percent = floor(100 * processed / total).
C21_ProgressEventInvariants ==
    (run.pc \in {"next", "pages", "top_off", "done"} /\ run.event # None) =>
        LET e == run.event
        IN /\ e.total >= 1
           /\ e.processed <= e.total
           /\ e.percent >= 0 /\ e.percent <= 100
           /\ e.percent = (100 * e.processed) \div e.total

\* The sum of the estimates of the first n inputs.
RECURSIVE EstimateSum(_, _)
EstimateSum(sizes, n) == IF n = 0 THEN 0 ELSE EstimateSum(sizes, n - 1) + sizes[n]

\* C29: when an input has finished with fewer bytes reported than its
\* estimate, processed has been raised by the shortfall, clamped to the
\* total, and a forced event for that input carries it; and after input i
\* processed is at least min(total, sum of the estimates of inputs 1..i).
C29_TopOff ==
    (run.pc = "next" /\ run.done >= 1) =>
        LET estimated == run.sizes[run.done]
            raised == run.before_top_off + (estimated - run.last_in_file)
            sum == EstimateSum(run.sizes, run.done)
        IN /\ run.last_in_file < estimated =>
                /\ run.processed_total = IF raised > run.total THEN run.total ELSE raised
                /\ run.event.forced
                /\ run.event.current_file = run.done
                /\ run.event.processed = run.processed_total
           /\ run.processed_total >= IF sum > run.total THEN run.total ELSE sum

\* The second input, a container cut in its first page, has finished
\* after a first input that reported all its bytes: the shortfall of
\* 8192 bytes was added.
C29_Witness ==
    /\ run.pc = "next"
    /\ run.done = 2
    /\ run.sizes = <<2 * PAGE_SIZE, 2 * PAGE_SIZE>>
    /\ run.last_in_file = 0
    /\ run.before_top_off = 2 * PAGE_SIZE
    /\ run.processed_total = 4 * PAGE_SIZE
    /\ run.event.forced
    /\ run.event.current_file = 2

\* C30 as stated: for every input that has finished an event with its
\* number as current_file has been emitted, and every event is forced or
\* differs in percent from the event before it or comes 150 ms or more
\* after it.
C30_PerFileForcedBoundary ==
    run.pc \in {"next", "pages", "top_off", "done"} =>
        /\ \A i \in 1..run.done : i \in run.seen
        /\ run.event.forced \/ run.event.percent # run.event.prev_percent
                            \/ run.event.gap >= EmitMillis

\* C30, amended: for an input that finishes with fewer bytes reported
\* than its estimate, a forced event with its number as current_file is
\* emitted when it finishes; and every event is forced or differs in
\* percent from the event before it or comes 150 ms or more after it.
C30_ShortfallForcedBoundary ==
    run.pc \in {"next", "pages", "top_off", "done"} =>
        /\ (run.pc = "next" /\ run.done >= 1
                /\ run.last_in_file < run.sizes[run.done])
               => /\ run.done \in run.seen
                  /\ run.event.forced
                  /\ run.event.current_file = run.done
        /\ run.event.forced \/ run.event.percent # run.event.prev_percent
                            \/ run.event.gap >= EmitMillis

\* A byte report of the second input was handed to the callback unforced,
\* 150 ms after the event before it and with the same percent, after a
\* first input that ended with a forced event.
C30_Witness ==
    /\ run.pc = "pages"
    /\ run.done = 1
    /\ 1 \in run.seen
    /\ ~run.event.forced
    /\ run.event.current_file = 2
    /\ run.event.percent = run.event.prev_percent
    /\ run.event.gap >= EmitMillis

\* C31: the first event of a call with a progress callback has processed
\* = 0 and current_file = 0, and the last one has processed = total,
\* percent = 100 and current_file = total_files, also for an empty input
\* list and when every input failed.
C31_FirstAndLastEvent ==
    /\ (run.pc \in {"next", "pages", "top_off", "done"} /\ run.emitted = 1)
           => /\ run.event.processed = 0
              /\ run.event.current_file = 0
    /\ run.pc = "done"
           => /\ run.event.processed = run.event.total
              /\ run.event.percent = 100
              /\ run.event.current_file = run.event.total_files

\* C39: from one event of a call to the next, processed, percent and
\* current_file do not decrease and total stays the same.
C39_ProgressMonotone ==
    [][(run.pc \in {"next", "pages", "top_off", "done"}
            /\ run'.pc \in {"next", "pages", "top_off", "done"})
          => /\ run'.event.processed >= run.event.processed
             /\ run'.event.percent >= run.event.percent
             /\ run'.event.current_file >= run.event.current_file
             /\ run'.event.total = run.event.total]_vars

\* A byte report of the second input was handed to the callback after the
\* first input had been processed in full.
C39_Witness ==
    /\ run.pc = "pages"
    /\ run.done = 1
    /\ run.sizes[1] = 2 * PAGE_SIZE
    /\ ~run.event.forced
    /\ run.event.current_file = 2
    /\ run.event.processed = 3 * PAGE_SIZE
    /\ run.event.percent > run.event.prev_percent

\* C32: on_result is called once per input, in input order, after the
\* input's output was flushed and before the next input is opened, and no
\* event of input k + 1 comes before the on_result of input k.
C32_SequentialResults ==
    run.pc \in {"next", "pages", "top_off", "done"} =>
        /\ Len(run.on_result) = run.done
        /\ \A k \in 1..Len(run.on_result) :
               /\ run.on_result[k].input = to_string_lossy(run.files[k])
               /\ ~run.on_result[k].failed => run.on_result[k].flushed
        /\ \A k \in 1..Len(run.opened) : run.opened[k] = k - 1
        /\ run.event.current_file <= Len(run.on_result) + 1
        /\ run.pc = "done" => Len(run.on_result) = Len(run.files)

\* A call of two inputs is over: the first failed, the second was decrypted,
\* and on_result was called for each.
C32_Witness ==
    /\ run.pc = "done"
    /\ Len(run.on_result) = 2
    /\ run.on_result[1].failed
    /\ ~run.on_result[2].failed
    /\ run.on_result[2].flushed
    /\ run.opened = <<0, 1>>

\* C40: a container that ends before data_offset + output_size bytes, so
\* that some page read returns fewer than 4096 bytes, gets a per-file error
\* and is not reported as decrypted.
C40_TruncatedInputFails ==
    run.pc \in {"loop", "done"} =>
        \A i \in 1..Len(run.results) :
            LET t == run.traces[i]
            IN (\E k \in 1..Len(t.pages) : t.pages[k].bytes < PAGE_SIZE)
                   => /\ run.outcomes[i] # "ok"
                      /\ run.results[i].failed

\* The key URL argument is given: it is not blank.
UrlGiven == arg.key_url # None /\ Get(arg.key_url) \notin {"", "  "}

\* C33: with a key URL that is not blank only the URL is used, and a
\* fetch, status or parse failure is the error of the load with no local
\* file consulted; otherwise the keys file of the working directory is
\* used if there is one, else the one of the executable's directory, else
\* the load fails.
C33_KeySourcePriority ==
    ret # NoRet =>
        LET r == ret.result
        IN /\ UrlGiven =>
                /\ r.reads = {"url"}
                /\ r.source[1] = "url"
                /\ (arg.url.fetch # "ok" \/ ~arg.url.text.json) => ~r.ok
           /\ ~UrlGiven =>
                /\ "url" \notin r.reads
                /\ IF arg.cwd.k # "absent"
                   THEN /\ r.source = <<"local", "cwd">>
                        /\ r.reads = {"cwd"}
                        /\ (arg.cwd.k = "unreadable" \/ ~arg.cwd.text.json) => ~r.ok
                   ELSE IF arg.exe.k \notin {"absent", "no_exe"}
                   THEN r.source = <<"local", "exe">>
                   ELSE ~r.ok /\ r.error = "Key file not found"

\* The key URL answered with an error status while both directories held a
\* keys file whose fields all decode: the load failed.
C33_Witness ==
    /\ ret # NoRet
    /\ arg.key_url = Some(" http://keys ")
    /\ arg.url.fetch = "status"
    /\ arg.cwd = [k |-> "file", text |-> KeyText(TRUE, GoodKeyFile)]
    /\ arg.exe = [k |-> "file", text |-> KeyText(TRUE, GoodKeyFile)]
    /\ ~ret.result.ok

\* A hex field that decodes: blanks, the prefix, sixteen bytes, blanks.
WellFormedHex(raw) ==
    /\ Len(raw) >= KeyBytes
    /\ \E i, j \in 0..(Len(raw) - KeyBytes) :
           /\ i + j <= Len(raw) - KeyBytes
           /\ raw = Blanks(i) \o Prefixes(j) \o Bytes(KeyBytes)
                        \o Blanks(Len(raw) - KeyBytes - i - j)

\* The keys document the call reads, if it gets one.
UsedText ==
    IF UrlGiven
    THEN IF arg.url.fetch = "ok" THEN Some(arg.url.text) ELSE None
    ELSE IF arg.cwd.k # "absent"
    THEN IF arg.cwd.k = "file" THEN Some(arg.cwd.text) ELSE None
    ELSE IF arg.exe.k = "file" THEN Some(arg.exe.text)
    ELSE None

\* Some hex field of the document does not decode to 16 bytes.
HasInvalidHex(doc) ==
    \/ \E pair \in {doc.bootid, doc.option} :
           ~WellFormedHex(pair.key) \/ ~WellFormedHex(pair.iv)
    \/ \E id \in DOMAIN doc.games :
           \/ ~WellFormedHex(doc.games[id].key)
           \/ doc.games[id].iv # None /\ ~WellFormedHex(Get(doc.games[id].iv))

\* C34: when a hex field of the keys document, of a game no input needs
\* included, does not decode to 16 bytes, decrypt_game_files returns an
\* error with no input opened, no output created and no progress or
\* on_result callback made.
C34_InvalidKeyFatal ==
    (run.pc # "idle" /\ UsedText # None /\ Get(UsedText).json
         /\ HasInvalidHex(Get(UsedText).doc))
        => /\ run.pc = "keys_failed"
           /\ run.opened = <<>>
           /\ run.events = <<>>
           /\ run.on_result = <<>>
           /\ dfs = LoadDisk

\* The call was made on the container of game SDEZ with a document from
\* the URL whose IV of game SDDT is a byte short.
C34_Witness ==
    /\ run.pc = "keys_failed"
    /\ run.files = <<DPath("in1", "app")>>
    /\ UrlGiven
    /\ arg.url = [fetch |-> "ok",
                  text |-> KeyText(TRUE, KeyFileWith("SDDT.iv", Bytes(KeyBytes - 1)))]
    /\ run.loaded.error = "Invalid length"

\* The names that are accepted: not blank, no slash at the end once the
\* backslashes are slashes, no "..".
Acceptable(entry) ==
    LET n == [i \in DOMAIN entry |-> IF entry[i] = "\\" THEN "/" ELSE entry[i]]
    IN /\ \E i \in DOMAIN n : n[i] # " "
       /\ (n = <<>> \/ n[Len(n)] # "/")
       /\ \A i \in 1..(Len(n) - 1) : ~(n[i] = "." /\ n[i + 1] = ".")

\* C35: clean_entry_path rejects a name that is blank, ends with a slash or
\* contains ".."; a name it accepts is not empty, has no backslash and no
\* ".." and does not start with "/"; cleaning an accepted name again
\* returns it unchanged; and files are created only at root/<accepted name>.
C35_CleanEntryPath ==
    /\ ret.fn \in {"clean_entry_path", "again"} =>
          /\ ~Acceptable(arg.entry) => ret.cleaned = None
          /\ ret.cleaned # None =>
                LET name == Get(ret.cleaned)
                IN /\ name # <<>>
                   /\ \A i \in DOMAIN name : name[i] # "\\"
                   /\ \A i \in 1..(Len(name) - 1) :
                          ~(name[i] = "." /\ name[i + 1] = ".")
                   /\ name[1] # "/"
    /\ ret.fn = "again" => ret.again = ret.cleaned
    /\ ret.fn = "extract_artifact" =>
          \A target \in ret.created :
              /\ target[1] = "root"
              /\ Acceptable(arg.entry)
              /\ target[2] # <<>>
              /\ target[2][1] # "/"

\* The artifact of the first manifest: its files[] is empty and its zip
\* holds the binary a.dll and the text c.ini.
EmptyFilesArtifact == Manifests[1].artifacts[1]

C37_BackupOfLastDeploy ==
    (snap.phase = "deployed" /\ pc = "returned" /\ IsSome(bmeta)) =>
        /\ snap.forced_over
        /\ result.existing_files = Get(bmeta).backed_up_files
        /\ \A i \in DOMAIN Get(bmeta).backed_up_files :
               LET file == Get(bmeta).backed_up_files[i]
               IN bfiles[file] = snap.contents[file]

\* C36: whenever verify returns a trusted status from the cache, every
\* checked file holds the content that was hashed when the status was
\* computed, also when another program wrote a file between check_files
\* and store_status_for.
C36_CacheNeverMasksChange ==
    (/\ pc = "returned"
     /\ result.op = "verify"
     /\ result.ok
     /\ result.from_cache
     /\ Get(result.status).trusted)
        => \A i \in DOMAIN Get(result.status).checked_files :
               LET c == Get(result.status).checked_files[i]
               IN /\ exists(files, c.path)
                  /\ c.actual_sha256 = Some(sha256_reader(files[c.path].content))

====
